---------------------------- MODULE Spec2Model ----------------------------
(***************************************************************************)
(* Model of the generate-validate-retry pipeline of                        *)
(* run/main_ProblemGeneratorV6.py and of the helpers of run/pg_helpers.py  *)
(* it calls (validate_problem, compute_problem_signature,                  *)
(* execute_and_validate_in_repl, atomic_write_json).                       *)
(*                                                                         *)
(* The script is one sequential thread.  Its position is pc; every         *)
(* external model call, every helper call and every branch of the script   *)
(* is one action.  The answers of the external model (text that parses or  *)
(* not, a candidate, a piece of code, an exception) are the inputs and are *)
(* chosen with \E from small sets.                                         *)
(***************************************************************************)
EXTENDS Integers, Sequences, FiniteSets, TLC

(***************************************************************************)
(* Program constants                                                       *)
(***************************************************************************)
max_iterations == 12
target_problems == 10
WindowSize == 10
CyclesPerIteration == 2
SnippetLen == 140

(***************************************************************************)
(* Bounds of the model                                                     *)
(***************************************************************************)
\* seed pairs (CSV rows) of one run
NumRows == 2
\* valid candidates with pairwise distinct signatures the model may propose
NumCandidates == 11
\* alternate scenarios Call1 may return
MaxScenarios == 2
\* answers of the external model, per seed pair, that make a stage fail
MaxFaults == 2

Min(a, b) == IF a < b THEN a ELSE b
Max(a, b) == IF a > b THEN a ELSE b
Range(s) == {s[i] : i \in 1..Len(s)}

(***************************************************************************)
(* Values of the JSON data the external model returns.  A variable's       *)
(* 'value' is a number, a string, or absent (None).  Formula ids F1..F9    *)
(* are written 1..9: for one-digit ids the string order sorted() uses is   *)
(* the numeric order.                                                      *)
(***************************************************************************)
Num(n) == [t |-> "num", n |-> n]
Str(s) == [t |-> "str", s |-> s]
None == [t |-> "none"]
\* the float nan / inf json.loads and solve() can produce
FloatNaN == [t |-> "fnan"]
FloatInf == [t |-> "finf"]
\* an int beyond the range of a float (10**400), sign 1 or -1
HugeInt(sign) == [t |-> "huge", sign |-> sign]

\* str.lower() on the strings the model uses
Lower(s) == CASE s = "NaN" -> "nan"
              [] s = "NAN" -> "nan"
              [] s = "Unknown" -> "unknown"
              [] OTHER -> s

\* the comparison with 'nan' without lower()
IsNanValue_CaseSensitive(v) == \/ v.t = "str" /\ v.s = "nan"
                               \/ v.t = "fnan"

\* str(v.get('value')).lower() == 'nan'      (pg_helpers.py:103,167,174,217)
IsNanValue(v) == \/ v.t = "str" /\ Lower(v.s) = "nan"
                 \/ v.t = "fnan"

KnownFormulaIds == 1..4

\* the per-name range table Call1 returns under 'variables'
GivenVar == "force"
VariableRanges == [name \in {GivenVar} |-> [min |-> 1, max |-> 10]]
NoRanges == [name \in {} |-> [min |-> 0, max |-> 0]]

(***************************************************************************)
(* compute_problem_signature (pg_helpers.py:90-107).  The f-string         *)
(* "fids=[a,b]|unknown=u" is kept as the pair of the sorted id list and    *)
(* the name; an absent unknown prints as "None".                           *)
(***************************************************************************)
\* names of the variables whose value is the nan sentinel, in dict order
NanVars(variables) ==
    LET idx == {i \in 1..Len(variables) : IsNanValue(variables[i].value)}
        F[i \in 0..Len(variables)] ==
            IF i = 0 THEN <<>>
            ELSE IF i \in idx THEN Append(F[i-1], variables[i].name) ELSE F[i-1]
    IN  F[Len(variables)]

SortedFids(fids) == SortSeq(fids, LAMBDA a, b : a < b)

\* the signature over the ids in the order the candidate lists them
compute_problem_signature_Unsorted(data) ==
    LET nan == NanVars(data.variables)
    IN  [fids |-> data.formula_ids,
         unknown |-> IF nan = <<>> THEN "None" ELSE nan[1]]

\* pg_helpers.py:97-106
compute_problem_signature(data) ==
    LET nan == NanVars(data.variables)
    IN  [fids |-> SortedFids(data.formula_ids),
         unknown |-> IF nan = <<>> THEN "None" ELSE nan[1]]

(***************************************************************************)
(* validate_problem (pg_helpers.py:146-194)                                *)
(***************************************************************************)
Invalid(msg, args) == [valid |-> FALSE, error |-> [msg |-> msg, args |-> args]]

\* float(value) succeeds (pg_helpers.py:179-182)
IsNumeric(v) == v.t = "num"

RangeOk == [valid |-> TRUE]

\* the range loop with the bounds excluded
RangeCheckVar_Strict(var, variable_ranges) ==
    IF IsNanValue(var.value) \/ var.name \notin DOMAIN variable_ranges
    THEN RangeOk
    ELSE LET rr == variable_ranges[var.name]
         IN  IF ~IsNumeric(var.value)
             THEN Invalid("has an invalid numerical value", <<var.name, var.value>>)
             ELSE IF ~(rr.min < var.value.n /\ var.value.n < rr.max)
             THEN Invalid("is out of expected range",
                          <<var.name, var.value.n, rr.min, rr.max>>)
             ELSE RangeOk

\* the outcome of one variable in the range loop (pg_helpers.py:174-184)
RangeCheckVar(var, variable_ranges) ==
    IF IsNanValue(var.value) \/ var.name \notin DOMAIN variable_ranges
    THEN RangeOk
    ELSE LET rr == variable_ranges[var.name]
         IN  IF ~IsNumeric(var.value)
             THEN Invalid("has an invalid numerical value", <<var.name, var.value>>)
             ELSE IF ~(rr.min <= var.value.n /\ var.value.n <= rr.max)
             THEN Invalid("is out of expected range",
                          <<var.name, var.value.n, rr.min, rr.max>>)
             ELSE RangeOk

\* the history as the prompt shows it: its first five entries
SignatureInHistory_PromptWindow(sig, previous) ==
    \E i \in 1..Min(Len(previous), 5) : previous[i].signature = sig

\* pg_helpers.py:188-190
SignatureInHistory(sig, previous) ==
    \E i \in 1..Len(previous) : previous[i].signature = sig

\* validate_problem with the history consulted before the variables
validate_problem_DuplicateFirst(output, formula_id_set, variable_ranges, previous) ==
    LET nan_vars == NanVars(output.variables)
        bad == {i \in 1..Len(output.variables) :
                   ~RangeCheckVar(output.variables[i], variable_ranges).valid}
        first == CHOOSE i \in bad : \A j \in bad : i <= j
    IN  IF \E i \in 1..Len(output.formula_ids) :
               output.formula_ids[i] \notin formula_id_set
        THEN Invalid("Invalid formula_id", <<>>)
        ELSE IF SignatureInHistory(compute_problem_signature(output), previous)
        THEN Invalid("Duplicate problem signature", <<>>)
        ELSE IF Len(nan_vars) # 1
        THEN Invalid("Must have exactly 1 unknown, found", <<Len(nan_vars)>>)
        ELSE IF bad # {}
        THEN RangeCheckVar(output.variables[first], variable_ranges)
        ELSE [valid |-> TRUE, unknown_var |-> nan_vars[1]]

\* validate_problem rejecting only a candidate none of whose ids is known
validate_problem_AllAbsent(output, formula_id_set, variable_ranges, previous) ==
    LET nan_vars == NanVars(output.variables)
        bad == {i \in 1..Len(output.variables) :
                   ~RangeCheckVar(output.variables[i], variable_ranges).valid}
        first == CHOOSE i \in bad : \A j \in bad : i <= j
    IN  IF /\ output.formula_ids # <<>>
           /\ \A i \in 1..Len(output.formula_ids) :
                  output.formula_ids[i] \notin formula_id_set
        THEN Invalid("Invalid formula_id", <<>>)
        ELSE IF Len(nan_vars) # 1
        THEN Invalid("Must have exactly 1 unknown, found", <<Len(nan_vars)>>)
        ELSE IF bad # {}
        THEN RangeCheckVar(output.variables[first], variable_ranges)
        ELSE IF SignatureInHistory(compute_problem_signature(output), previous)
        THEN Invalid("Duplicate problem signature", <<>>)
        ELSE [valid |-> TRUE, unknown_var |-> nan_vars[1]]

\* validate_problem rejecting only a candidate without any unknown
validate_problem_NoneOnly(output, formula_id_set, variable_ranges, previous) ==
    LET nan_vars == NanVars(output.variables)
        bad == {i \in 1..Len(output.variables) :
                   ~RangeCheckVar(output.variables[i], variable_ranges).valid}
        first == CHOOSE i \in bad : \A j \in bad : i <= j
    IN  IF \E i \in 1..Len(output.formula_ids) :
               output.formula_ids[i] \notin formula_id_set
        THEN Invalid("Invalid formula_id", <<>>)
        ELSE IF Len(nan_vars) = 0
        THEN Invalid("Must have exactly 1 unknown, found", <<Len(nan_vars)>>)
        ELSE IF bad # {}
        THEN RangeCheckVar(output.variables[first], variable_ranges)
        ELSE IF SignatureInHistory(compute_problem_signature(output), previous)
        THEN Invalid("Duplicate problem signature", <<>>)
        ELSE [valid |-> TRUE, unknown_var |-> nan_vars[1]]

\* validate_problem without the check against the history
validate_problem_NoHistory(output, formula_id_set, variable_ranges, previous) ==
    LET nan_vars == NanVars(output.variables)
        bad == {i \in 1..Len(output.variables) :
                   ~RangeCheckVar(output.variables[i], variable_ranges).valid}
        first == CHOOSE i \in bad : \A j \in bad : i <= j
    IN  IF \E i \in 1..Len(output.formula_ids) :
               output.formula_ids[i] \notin formula_id_set
        THEN Invalid("Invalid formula_id", <<>>)
        ELSE IF Len(nan_vars) # 1
        THEN Invalid("Must have exactly 1 unknown, found", <<Len(nan_vars)>>)
        ELSE IF bad # {}
        THEN RangeCheckVar(output.variables[first], variable_ranges)
        ELSE [valid |-> TRUE, unknown_var |-> nan_vars[1]]

\* pg_helpers.py:164-194, the checks in the order of the code
validate_problem(output, formula_id_set, variable_ranges, previous) ==
    LET nan_vars == NanVars(output.variables)
        bad == {i \in 1..Len(output.variables) :
                   ~RangeCheckVar(output.variables[i], variable_ranges).valid}
        first == CHOOSE i \in bad : \A j \in bad : i <= j
    IN  IF \E i \in 1..Len(output.formula_ids) :
               output.formula_ids[i] \notin formula_id_set
        THEN Invalid("Invalid formula_id", <<>>)
        ELSE IF Len(nan_vars) # 1
        THEN Invalid("Must have exactly 1 unknown, found", <<Len(nan_vars)>>)
        ELSE IF bad # {}
        THEN RangeCheckVar(output.variables[first], variable_ranges)
        ELSE IF SignatureInHistory(compute_problem_signature(output), previous)
        THEN Invalid("Duplicate problem signature", <<>>)
        ELSE [valid |-> TRUE, unknown_var |-> nan_vars[1]]

(***************************************************************************)
(* execute_and_validate_in_repl (pg_helpers.py:197-223).  A piece of code  *)
(* is what running it does: exec(code) raises or not, it leaves a callable *)
(* solve or not, solve() raises or returns ret.                            *)
(***************************************************************************)
SignCheckedTokens == {"mass", "distance", "time", "speed", "velocity", "energy"}

\* any(x in unknown_var.lower() for x in [...]) on the names the model uses
ContainsSignToken(name) ==
    CASE name \in SignCheckedTokens -> TRUE
      [] name = "Time" -> TRUE
      [] name = "total_energy" -> TRUE
      [] OTHER -> FALSE

\* math.isnan(result) raises outside the try block (pg_helpers.py:214): the
\* call of execute_and_validate_in_repl returns nothing
Escaped(exception) == [escaped |-> exception]

ExecInvalid(msg, args, result) ==
    [valid |-> FALSE, error |-> [msg |-> msg, args |-> args], result |-> result]

\* execute that falls back on another callable of the code
execute_and_validate_in_repl_CallsOther(code, variables) ==
    LET unknown_vars == NanVars(variables)
    IN  IF code.load_raises
        THEN ExecInvalid("Execution failed", <<"load">>, None)
        ELSE IF ~code.defines_solve /\ code.callables = {}
        THEN ExecInvalid("'solve()' function not found", <<>>, None)
        ELSE IF ~code.defines_solve
        THEN [valid |-> TRUE, result |-> code.other_ret]
        ELSE IF code.solve_raises
        THEN ExecInvalid("Execution failed", <<"solve">>, None)
        ELSE IF code.ret.t \notin {"num", "fnan", "finf", "huge"}
        THEN ExecInvalid("Invalid return type", <<>>, None)
        ELSE IF code.ret.t = "huge"
        THEN Escaped("OverflowError")
        ELSE IF code.ret.t \in {"fnan", "finf"}
        THEN ExecInvalid("Result is NaN or Inf", <<>>, None)
        ELSE IF /\ unknown_vars # <<>>
                /\ code.ret.n < 0
                /\ ContainsSignToken(unknown_vars[1])
        THEN ExecInvalid("Negative value for", <<unknown_vars[1]>>, code.ret)
        ELSE [valid |-> TRUE, result |-> code.ret]

\* pg_helpers.py:203-223
execute_and_validate_in_repl(code, variables) ==
    LET unknown_vars == NanVars(variables)
    IN  IF code.load_raises
        THEN ExecInvalid("Execution failed", <<"load">>, None)
        ELSE IF ~code.defines_solve
        THEN ExecInvalid("'solve()' function not found", <<>>, None)
        ELSE IF code.solve_raises
        THEN ExecInvalid("Execution failed", <<"solve">>, None)
        ELSE IF code.ret.t \notin {"num", "fnan", "finf", "huge"}
        THEN ExecInvalid("Invalid return type", <<>>, None)
        ELSE IF code.ret.t = "huge"
        THEN Escaped("OverflowError")
        ELSE IF code.ret.t \in {"fnan", "finf"}
        THEN ExecInvalid("Result is NaN or Inf", <<>>, None)
        ELSE IF /\ unknown_vars # <<>>
                /\ code.ret.n < 0
                /\ ContainsSignToken(unknown_vars[1])
        THEN ExecInvalid("Negative value for", <<unknown_vars[1]>>, code.ret)
        ELSE [valid |-> TRUE, result |-> code.ret]

(***************************************************************************)
(* The answers of the external model.                                      *)
(*                                                                         *)
(* Candidates: ValidCandidate(1..NumCandidates) have pairwise distinct     *)
(* signatures and pass checks 1-3.  The orchestrator only compares         *)
(* signatures for equality, so candidates not recorded so far are          *)
(* interchangeable: the model proposes them in index order (any candidate  *)
(* recorded before, or the first one never recorded).                      *)
(***************************************************************************)
FidSeqs == << <<2, 1>>, <<1>>, <<3>>, <<4>>, <<3, 1>>, <<4, 2>>, <<4, 3>> >>

Var(name, value) == [name |-> name, value |-> value]

UnknownName(j) == IF j = 10 THEN "charge" ELSE IF j % 2 = 1 THEN "mass" ELSE "time"

ValidCandidate(j) ==
    [word_problem |-> [id |-> j, len |-> IF j % 2 = 1 THEN 200 ELSE 60],
     formula_ids |-> FidSeqs[(j + 1) \div 2],
     variables |-> << Var(GivenVar, Num(4)), Var(UnknownName(j), Str("nan")) >>]

\* the same problem as ValidCandidate(2), its formula ids in the other order
PermutedCandidate ==
    [ValidCandidate(2) EXCEPT !.formula_ids = <<1, 2>>, !.word_problem.id = 0]

\* candidates that fail one of the checks 1-3 of validate_problem
BadCandidates ==
    { [ValidCandidate(1) EXCEPT !.formula_ids = <<1, 9>>],
      [ValidCandidate(1) EXCEPT !.variables[2].value = Str("unknown")] }

\* a parsed response that is no JSON object (a list, a number, a string)
WrongShape == [word_problem |-> [id |-> 0, len |-> 0], formula_ids |-> <<>>,
               variables |-> <<>>, shape |-> "not an object"]
NoCandidate == [word_problem |-> [id |-> 0, len |-> 0], formula_ids |-> <<>>,
                variables |-> <<>>, shape |-> "none"]
IsObject(data) == "shape" \notin DOMAIN data

\* pieces of code, by what running them does
Code(load_raises, defines_solve, solve_raises, ret) ==
    [load_raises |-> load_raises, defines_solve |-> defines_solve,
     solve_raises |-> solve_raises, ret |-> ret]
CodePositive == Code(FALSE, TRUE, FALSE, Num(5))
CodeNegative == Code(FALSE, TRUE, FALSE, Num(-5))
CodeNoSolve == Code(FALSE, FALSE, FALSE, None)
CodeNaN == Code(FALSE, TRUE, FALSE, FloatNaN)
NoCode == Code(TRUE, FALSE, FALSE, None)
Codes == {CodePositive, CodeNegative, CodeNoSolve}

(***************************************************************************)
(* State                                                                   *)
(***************************************************************************)
VARIABLES
    pc,                     \* position of the script
    file,                   \* content of success_file_path
    tmp_file,               \* content of success_file_path + '.tmp'
    initial_file,           \* the content of success_file_path before the run
    existing_records,       \* main:46
    existing_signatures,    \* main:60
    previous_problems,      \* main:74, the recent-history window
    row_index,              \* main:76
    identified_chapters,    \* main:100
    available_formulas,     \* main:101, as the chapters whose formulas it holds
    op_call1a_data,         \* main:127
    checks,                 \* calls of the sufficiency check (Call1A) in this row
    formula_id_set,         \* main:145
    variable_ranges,        \* op_call1_data.get('variables', {})
    alternate_scenarios,    \* main:148
    scenario_idx,           \* main:151
    selected_scenario,      \* main:163, 0 for None
    current_iteration,      \* main:154
    per_row_successful,     \* main:155
    cycle_no,               \* cycles started in this iteration (main:172)
    op_call2_data,          \* main:198
    validation_result,      \* main:221
    signature,              \* main:263
    code_text,              \* main:285
    action3_result,         \* main:286
    duplicates_skipped,     \* main:70
    counted,                \* what the current cycle has added to the counters
                            \* total_cycles_attempted, parse_failures and
                            \* execution_failures (main:69-72)
    now,                    \* number of RECORDs so far, the clock of created_at
    calls,                  \* per cycle: external calls and helper runs so far
    feedback,               \* error_message of the last corrective call
    outcome,                \* how the last cycle ended, "running" inside one
    faults,                 \* failing answers of the external model in this row
    persisted,              \* the rows whose records have been merged (PERSIST)
    reached,                \* the rows that have reached the iteration loop
    writes                  \* per row: completed replacements of the store file

storeVars == <<file, tmp_file, initial_file, existing_records, existing_signatures>>
chapterVars == <<identified_chapters, available_formulas, op_call1a_data,
                 checks>>
rowVars == <<row_index, chapterVars, formula_id_set, variable_ranges,
             alternate_scenarios>>
ghostVars == <<persisted, reached, writes>>
loopVars == <<scenario_idx, selected_scenario, current_iteration, cycle_no>>
cycleVars == <<op_call2_data, validation_result, signature, code_text,
               action3_result, calls, feedback, outcome>>
counterVars == <<duplicates_skipped, counted>>
successVars == <<previous_problems, per_row_successful, now>>
vars == <<pc, storeVars, rowVars, loopVars, cycleVars, counterVars, successVars,
          faults, ghostVars>>

(***************************************************************************)
(* Files and records                                                       *)
(***************************************************************************)
Absent == [kind |-> "absent", data |-> <<>>]
NotAList == [kind |-> "not a list", data |-> <<>>]
Partial == [kind |-> "partial", data |-> <<>>]
ListFile(records) == [kind |-> "list", data |-> records]

NoResult == [valid |-> FALSE, error |-> [msg |-> "none", args |-> <<>>]]
NoExecResult == [valid |-> FALSE, error |-> [msg |-> "none", args |-> <<>>],
                 result |-> None]
NoSignature == [fids |-> <<>>, unknown |-> "none"]
NoCalls == [call2 |-> 0, validate |-> 0, call3 |-> 0, execute |-> 0]
NoFeedback == [msg |-> "none", args |-> <<>>]
NoCounts == [total_cycles_attempted |-> 0, parse_failures |-> 0,
             execution_failures |-> 0]
CycleStarted == [NoCounts EXCEPT !.total_cycles_attempted = 1]
ParseHint == [msg |-> "Parsing failure from previous response.", args |-> <<>>]

\* word_problem[:140]
Snippet(word_problem) ==
    [id |-> word_problem.id, len |-> Min(word_problem.len, SnippetLen)]

\* main:315-328
SuccessRecord(data, vr, sig, code, ar, t, pair) ==
    [signature |-> sig,
     formula_ids |-> data.formula_ids,
     unknown_var |-> vr.unknown_var,
     word_problem |-> data.word_problem,
     variables |-> data.variables,
     code |-> code,
     result |-> ar.result,
     execution_result |-> ar,
     validation_result |-> vr,
     created_at |-> t,
     Pair_Number |-> pair,
     source_problem_ID |-> pair]

\* HistoryEntry that does not keep the signature
HistoryEntry_NoSignature(data, sig, t) ==
    [signature |-> NoSignature, snippet |-> Snippet(data.word_problem),
     created_at |-> t]

\* main:330-334
HistoryEntry(data, sig, t) ==
    [signature |-> sig, snippet |-> Snippet(data.word_problem), created_at |-> t]

\* a record an earlier run of the script has written
PriorRecord(j) ==
    LET c == ValidCandidate(j)
    IN  SuccessRecord(c, validate_problem(c, KnownFormulaIds, VariableRanges, <<>>),
                      compute_problem_signature(c), CodePositive,
                      execute_and_validate_in_repl(CodePositive, c.variables), 0, 0)

InitialFiles == {Absent, NotAList, ListFile(<<PriorRecord(1)>>)}

Init ==
    /\ pc = "load"
    /\ file \in InitialFiles
    /\ initial_file = file
    /\ tmp_file = Absent
    /\ existing_records = <<>>
    /\ existing_signatures = {}
    /\ previous_problems = <<>>
    /\ row_index = 0
    /\ identified_chapters = <<>>
    /\ available_formulas = {}
    /\ op_call1a_data = [status |-> "none", missing_chapter |-> "none"]
    /\ checks = 0
    /\ formula_id_set = {}
    /\ variable_ranges = NoRanges
    /\ alternate_scenarios = <<>>
    /\ scenario_idx = 0
    /\ selected_scenario = 0
    /\ current_iteration = 0
    /\ per_row_successful = <<>>
    /\ cycle_no = 0
    /\ op_call2_data = NoCandidate
    /\ validation_result = NoResult
    /\ signature = NoSignature
    /\ code_text = NoCode
    /\ action3_result = NoExecResult
    /\ duplicates_skipped = 0
    /\ counted = NoCounts
    /\ now = 0
    /\ calls = NoCalls
    /\ feedback = NoFeedback
    /\ outcome = "none"
    /\ faults = 0
    /\ persisted = {}
    /\ reached = {}
    /\ writes = [r \in 1..NumRows |-> 0]

(***************************************************************************)
(* Start of the script: load the store (main:46-60)                        *)
(***************************************************************************)
Signatures(records) == {records[i].signature : i \in 1..Len(records)}

LoadStore ==
    /\ UNCHANGED <<faults, ghostVars>>
    /\ pc = "load"
    /\ existing_records' = IF file.kind = "list" THEN file.data ELSE <<>>
    /\ existing_signatures' = Signatures(existing_records')
    /\ pc' = "rows"
    /\ UNCHANGED <<file, tmp_file, initial_file, rowVars, loopVars, cycleVars,
                   counterVars, successVars>>

(***************************************************************************)
(* One CSV row: Call1, chapters, formulas, scenarios (main:76-155)         *)
(***************************************************************************)
Scenarios(n) == [i \in 1..n |-> i]

\* the chapter files: one chapter with formulas, one whose file is missing,
\* one whose file does not hold a formula mapping (main:103-109)
ChapterFile(ch) ==
    CASE ch = "kinematics" -> [kind |-> "formulas", ids |-> KnownFormulaIds]
      [] ch = "optics" -> [kind |-> "missing", ids |-> {}]
      [] OTHER -> [kind |-> "malformed", ids |-> {}]

\* main:103-109, 136-142: what available_formulas.update adds for a chapter
LoadChapter(ch) == IF ChapterFile(ch).kind = "formulas" THEN {ch} ELSE {}

\* main:101-109
LoadChapters(chapters) == UNION {LoadChapter(chapters[i]) : i \in 1..Len(chapters)}

\* pg_helpers.py:63-87
normalize_available_formula_ids(available) ==
    UNION {ChapterFile(ch).ids : ch \in available}

\* what Call1 answers for one row.  With an unparseable answer op_call1_data
\* is {}: no chapters, no ranges, no scenarios.
Analyses ==
    {[relevant_chapters |-> <<"kinematics">>, ranges |-> VariableRanges,
      scenarios |-> Scenarios(MaxScenarios)],
     [relevant_chapters |-> <<"optics", "waves">>, ranges |-> VariableRanges,
      scenarios |-> Scenarios(MaxScenarios)],
     [relevant_chapters |-> <<>>, ranges |-> NoRanges, scenarios |-> <<>>]}

\* the parsed answers of Call1A; an unparseable answer gives {}
NoAnswer == [status |-> "none", missing_chapter |-> "none"]
Sufficiency ==
    {NoAnswer,
     [status |-> "YES", missing_chapter |-> "none"],
     [status |-> "YES", missing_chapter |-> "kinematics"],
     [status |-> "NO", missing_chapter |-> "none"],
     [status |-> "NO", missing_chapter |-> "kinematics"],
     [status |-> "NO", missing_chapter |-> "optics"]}

\* main:92-94: Call1 raises, the row is skipped
RowCall1Raises ==
    /\ UNCHANGED <<faults, ghostVars>>
    /\ pc = "rows"
    /\ row_index < NumRows
    /\ row_index' = row_index + 1
    /\ UNCHANGED <<pc, storeVars, chapterVars, formula_id_set, variable_ranges,
                   alternate_scenarios, loopVars, cycleVars, counterVars,
                   successVars>>

\* main:97-100: the answer parses to something that is no object; .get raises
RowCall1WrongShape ==
    /\ UNCHANGED <<faults, ghostVars>>
    /\ pc = "rows"
    /\ row_index < NumRows
    /\ row_index' = row_index + 1
    /\ pc' = "aborted"
    /\ UNCHANGED <<storeVars, chapterVars, formula_id_set, variable_ranges,
                   alternate_scenarios, loopVars, cycleVars, counterVars,
                   successVars>>

\* main:86-111: Call1 answers; the chapters it names are loaded.
\* variable_ranges and alternate_scenarios stand for the fields of
\* op_call1_data from here on.
RowAnalyze ==
    /\ faults' = 0
    /\ UNCHANGED ghostVars
    /\ pc = "rows"
    /\ row_index < NumRows
    /\ row_index' = row_index + 1
    /\ \E a \in Analyses :
          /\ identified_chapters' = a.relevant_chapters
          /\ available_formulas' = LoadChapters(a.relevant_chapters)
          /\ variable_ranges' = a.ranges
          /\ alternate_scenarios' = a.scenarios
    /\ op_call1a_data' = NoAnswer
    /\ checks' = 0
    /\ pc' = "call1a"
    /\ UNCHANGED <<storeVars, formula_id_set, loopVars, cycleVars, counterVars,
                   successVars>>

\* Corrected that does not look at the status
Corrected_AnyStatus(chapters, available, answer) ==
    IF /\ answer.missing_chapter # "none"
       /\ answer.missing_chapter \notin Range(chapters)
    THEN [chapters |-> Append(chapters, answer.missing_chapter),
          available |-> available \cup LoadChapter(answer.missing_chapter)]
    ELSE [chapters |-> chapters, available |-> available]

\* main:132-142: the correction the answer of Call1A asks for
Corrected(chapters, available, answer) ==
    IF /\ answer.status = "NO"
       /\ answer.missing_chapter # "none"
       /\ answer.missing_chapter \notin Range(chapters)
    THEN [chapters |-> Append(chapters, answer.missing_chapter),
          available |-> available \cup LoadChapter(answer.missing_chapter)]
    ELSE [chapters |-> chapters, available |-> available]

\* main:131-155: the correction, then the row enters the iteration loop
EnterLoop(answer) ==
    /\ op_call1a_data' = answer
    /\ LET c == Corrected(identified_chapters, available_formulas, answer)
       IN  /\ identified_chapters' = c.chapters
           /\ available_formulas' = c.available
           /\ formula_id_set' = normalize_available_formula_ids(c.available)
    /\ scenario_idx' = 0
    /\ current_iteration' = 0
    /\ per_row_successful' = <<>>
    /\ reached' = reached \cup {row_index}
    /\ pc' = "loop"
    /\ UNCHANGED <<storeVars, row_index, variable_ranges, alternate_scenarios,
                   selected_scenario, cycle_no, cycleVars, counterVars,
                   previous_problems, now, faults, persisted, writes>>

\* main:113-123, 128-155: Call1A raises; op_call1a_data is {}
Call1ARaises ==
    /\ pc = "call1a"
    /\ checks' = checks + 1
    /\ EnterLoop(NoAnswer)

\* main:125-155: Call1A answers
Call1AAnswers ==
    /\ pc = "call1a"
    /\ checks' = checks + 1
    /\ \E answer \in Sufficiency : EnterLoop(answer)

\* main:127, 132: the answer parses to something that is no object; .get raises
Call1AWrongShape ==
    /\ pc = "call1a"
    /\ checks' = checks + 1
    /\ pc' = "aborted"
    /\ UNCHANGED <<storeVars, row_index, identified_chapters, available_formulas,
                   op_call1a_data, formula_id_set, variable_ranges,
                   alternate_scenarios, loopVars, cycleVars, counterVars,
                   successVars, faults, ghostVars>>

\* main:354-356
Finish ==
    /\ UNCHANGED <<faults, ghostVars>>
    /\ pc = "rows"
    /\ row_index = NumRows
    /\ pc' = "done"
    /\ UNCHANGED <<storeVars, rowVars, loopVars, cycleVars, counterVars,
                   successVars>>

(***************************************************************************)
(* The iteration loop (main:158-172)                                       *)
(***************************************************************************)
\* LoopCondition without the test of the success count
LoopCondition_NoTarget(iteration, successful) ==
    iteration < max_iterations

\* main:158
LoopCondition(iteration, successful) ==
    iteration < max_iterations /\ Len(successful) < target_problems

\* between two cycles the locals of the last one are dead
ClearCycle ==
    /\ op_call2_data' = NoCandidate
    /\ validation_result' = NoResult
    /\ signature' = NoSignature
    /\ code_text' = NoCode
    /\ action3_result' = NoExecResult
    /\ calls' = NoCalls
    /\ feedback' = NoFeedback
    /\ outcome' = "none"
    /\ counted' = NoCounts

\* identified_chapters and op_call1a_data are not read after main:142; the
\* model forgets them, and the count of the checks, when the first iteration
\* starts
ForgetChapters ==
    /\ identified_chapters' = <<>>
    /\ op_call1a_data' = NoAnswer
    /\ checks' = 0

\* StartIteration that does not advance the scenario index
StartIteration_NoRotate ==
    /\ UNCHANGED <<faults, ghostVars>>
    /\ pc = "loop"
    /\ LoopCondition(current_iteration, per_row_successful)
    /\ current_iteration' = current_iteration + 1
    /\ IF alternate_scenarios # <<>>
       THEN /\ selected_scenario' =
                  alternate_scenarios[(scenario_idx % Len(alternate_scenarios)) + 1]
            /\ scenario_idx' = scenario_idx
       ELSE /\ selected_scenario' = 0
            /\ scenario_idx' = scenario_idx
    /\ cycle_no' = 0
    /\ pc' = "cycle"
    /\ ClearCycle
    /\ ForgetChapters
    /\ UNCHANGED <<storeVars, row_index, available_formulas, formula_id_set,
                   variable_ranges, alternate_scenarios, duplicates_skipped,
                   successVars>>

\* main:163-169
StartIteration ==
    /\ UNCHANGED <<faults, ghostVars>>
    /\ pc = "loop"
    /\ LoopCondition(current_iteration, per_row_successful)
    /\ current_iteration' = current_iteration + 1
    /\ IF alternate_scenarios # <<>>
       THEN /\ selected_scenario' =
                  alternate_scenarios[(scenario_idx % Len(alternate_scenarios)) + 1]
            /\ scenario_idx' = scenario_idx + 1
       ELSE /\ selected_scenario' = 0
            /\ scenario_idx' = scenario_idx
    /\ cycle_no' = 0
    /\ pc' = "cycle"
    /\ ClearCycle
    /\ ForgetChapters
    /\ UNCHANGED <<storeVars, row_index, available_formulas, formula_id_set,
                   variable_ranges, alternate_scenarios, duplicates_skipped,
                   successVars>>

(***************************************************************************)
(* One generation cycle (main:172-336).  An action is one external call    *)
(* together with the script's handling of its answer up to the next        *)
(* external call.  The script's locals op_call2_data, validation_result,   *)
(* signature, code_text and action3_result are assigned before they are    *)
(* read in every cycle; the model clears them when a cycle is abandoned    *)
(* and at the start of a cycle.                                            *)
(***************************************************************************)
\* the position after the cycle that is the n-th of its iteration
EndPc(n) == IF n = CyclesPerIteration THEN "loop" ELSE "cycle"

\* the locals of a cycle, the counters it bumps and the way it ended
Fresh ==
    [pc |-> pc, data |-> NoCandidate, vr |-> NoResult, sig |-> NoSignature,
     code |-> NoCode, ar |-> NoExecResult, calls |-> NoCalls,
     feedback |-> NoFeedback, outcome |-> "running",
     dups |-> 0, counted |-> CycleStarted]

Current ==
    [pc |-> pc, data |-> op_call2_data, vr |-> validation_result,
     sig |-> signature, code |-> code_text, ar |-> action3_result,
     calls |-> calls, feedback |-> feedback, outcome |-> "running",
     dups |-> 0, counted |-> counted]

\* Abandon for an error that is not caught
Abandon_Propagates(o, reason, n) ==
    [o EXCEPT !.pc = "aborted", !.outcome = reason]

\* 'continue': the cycle is abandoned
Abandon(o, reason, n) ==
    [o EXCEPT !.pc = EndPc(n), !.data = NoCandidate, !.vr = NoResult,
              !.sig = NoSignature, !.code = NoCode, !.ar = NoExecResult,
              !.outcome = reason]

\* Validated that also rejects a candidate whose signature is in the store
Validated_ChecksStore(o, c, first, n) ==
    IF ~IsObject(c)
    THEN [o EXCEPT !.pc = "aborted", !.data = c]
    ELSE LET sig == compute_problem_signature(c)
             vr == IF sig \in existing_signatures
                   THEN Invalid("Duplicate problem signature", <<>>)
                   ELSE validate_problem(c, formula_id_set, variable_ranges,
                                         previous_problems)
             v == [o EXCEPT !.data = c, !.vr = vr, !.calls.validate = @ + 1]
         IN  IF ~vr.valid
             THEN IF first
                  THEN [v EXCEPT !.pc = "call2b", !.data = NoCandidate]
                  ELSE Abandon([v EXCEPT !.counted.parse_failures = @ + 1], "validation failed", n)
             ELSE IF SignatureInHistory(sig, previous_problems)
             THEN Abandon([v EXCEPT !.dups = 1], "duplicate", n)
             ELSE [v EXCEPT !.pc = "call3", !.sig = sig]

\* Validated that passes every parsed candidate on to code generation
Validated_NoGate(o, c, first, n) ==
    IF ~IsObject(c)
    THEN [o EXCEPT !.pc = "aborted", !.data = c]
    ELSE LET vr == validate_problem(c, formula_id_set, variable_ranges,
                                    previous_problems)
             sig == compute_problem_signature(c)
             v == [o EXCEPT !.data = c, !.vr = vr, !.calls.validate = @ + 1]
         IN  [v EXCEPT !.pc = "call3", !.sig = sig]

\* Validated with a retry after every failed validation
Validated_RetryAgain(o, c, first, n) ==
    IF ~IsObject(c)
    THEN [o EXCEPT !.pc = "aborted", !.data = c]
    ELSE LET vr == validate_problem(c, formula_id_set, variable_ranges,
                                    previous_problems)
             sig == compute_problem_signature(c)
             v == [o EXCEPT !.data = c, !.vr = vr, !.calls.validate = @ + 1]
         IN  IF ~vr.valid
             THEN [v EXCEPT !.pc = "call2b", !.data = NoCandidate]
             ELSE IF SignatureInHistory(sig, previous_problems)
             THEN Abandon([v EXCEPT !.dups = 1], "duplicate", n)
             ELSE [v EXCEPT !.pc = "call3", !.sig = sig]

\* main:220-267: validate the parsed answer c; first = the first validation
Validated(o, c, first, n) ==
    IF ~IsObject(c)
    THEN [o EXCEPT !.pc = "aborted", !.data = c]
    ELSE LET vr == validate_problem(c, formula_id_set, variable_ranges,
                                    previous_problems)
             sig == compute_problem_signature(c)
             v == [o EXCEPT !.data = c, !.vr = vr, !.calls.validate = @ + 1]
         IN  IF ~vr.valid
             THEN IF first
                  THEN [v EXCEPT !.pc = "call2b", !.data = NoCandidate]
                  ELSE Abandon([v EXCEPT !.counted.parse_failures = @ + 1], "validation failed", n)
             ELSE IF SignatureInHistory(sig, previous_problems)
             THEN Abandon([v EXCEPT !.dups = 1], "duplicate", n)
             ELSE [v EXCEPT !.pc = "call3", !.sig = sig]

\* Executed that keeps the code of the first code-generation call
Executed_KeepsFirstCode(o, code, first, n) ==
    LET ar == execute_and_validate_in_repl(code, o.data.variables)
        x == [o EXCEPT !.code = IF first THEN code ELSE @, !.ar = ar,
                       !.calls.execute = @ + 1]
    IN  IF ar.valid
        THEN [x EXCEPT !.pc = EndPc(n), !.outcome = "recorded",
                       !.feedback = NoFeedback]
        ELSE IF first
        THEN [x EXCEPT !.pc = "call3a"]
        ELSE Abandon([x EXCEPT !.counted.execution_failures = @ + 1], "execution failed", n)

\* Executed with the check of the execution outcome left out
Executed_NoCheck(o, code, first, n) ==
    LET ar == execute_and_validate_in_repl(code, o.data.variables)
        x == [o EXCEPT !.code = code, !.ar = ar, !.calls.execute = @ + 1]
    IN  [x EXCEPT !.pc = EndPc(n), !.outcome = "recorded", !.feedback = NoFeedback]

\* Executed with a retry after every failed execution
Executed_RetryAgain(o, code, first, n) ==
    LET ar == execute_and_validate_in_repl(code, o.data.variables)
        x == [o EXCEPT !.code = code, !.ar = ar, !.calls.execute = @ + 1]
    IN  IF ar.valid
        THEN [x EXCEPT !.pc = EndPc(n), !.outcome = "recorded",
                       !.feedback = NoFeedback]
        ELSE [x EXCEPT !.pc = "call3a"]

\* main:285-311: run the code; first = the first execution
Executed(o, code, first, n) ==
    LET ar == execute_and_validate_in_repl(code, o.data.variables)
        x == [o EXCEPT !.code = code, !.ar = ar, !.calls.execute = @ + 1]
    IN  IF ar.valid
        THEN [x EXCEPT !.pc = EndPc(n), !.outcome = "recorded",
                       !.feedback = NoFeedback]
        ELSE IF first
        THEN [x EXCEPT !.pc = "call3a"]
        ELSE Abandon([x EXCEPT !.counted.execution_failures = @ + 1], "execution failed", n)

\* InsertFront that appends, and Truncate that keeps the last entries
InsertBack(window, e) == Append(window, e)
Truncate_KeepLast(window) ==
    SubSeq(window, Max(1, Len(window) - WindowSize + 1), Len(window))

\* previous_problems.insert(0, e); previous_problems = previous_problems[:10]
InsertFront(window, e) == <<e>> \o window
Truncate(window) == SubSeq(window, 1, Min(Len(window), WindowSize))

\* main:313-335
Record(o) ==
    /\ now' = now + 1
    /\ per_row_successful' =
           Append(per_row_successful,
                  SuccessRecord(o.data, o.vr, o.sig, o.code, o.ar, now', row_index))
    /\ previous_problems' =
           Truncate(InsertFront(previous_problems,
                                HistoryEntry(o.data, o.sig, now')))

\* Step that puts a cycle abandoned for its validation into the window
Step_RemembersRejected(o) ==
    /\ pc' = o.pc
    /\ op_call2_data' = o.data
    /\ validation_result' = o.vr
    /\ signature' = o.sig
    /\ code_text' = o.code
    /\ action3_result' = o.ar
    /\ calls' = o.calls
    /\ feedback' = o.feedback
    /\ outcome' = o.outcome
    /\ duplicates_skipped' = duplicates_skipped + o.dups
    /\ counted' = o.counted
    /\ IF o.outcome = "recorded" THEN Record(o)
       ELSE IF o.outcome = "validation failed"
       THEN /\ previous_problems' =
                  Truncate(InsertFront(previous_problems,
                                       HistoryEntry(o.data, o.sig, now)))
            /\ UNCHANGED <<per_row_successful, now>>
       ELSE UNCHANGED successVars
    /\ UNCHANGED <<storeVars, rowVars, scenario_idx, selected_scenario,
                   current_iteration, ghostVars>>

\* the state after one step of a cycle
Step(o) ==
    /\ pc' = o.pc
    /\ op_call2_data' = o.data
    /\ validation_result' = o.vr
    /\ signature' = o.sig
    /\ code_text' = o.code
    /\ action3_result' = o.ar
    /\ calls' = o.calls
    /\ feedback' = o.feedback
    /\ outcome' = o.outcome
    /\ duplicates_skipped' = duplicates_skipped + o.dups
    /\ counted' = o.counted
    /\ IF o.outcome = "recorded" THEN Record(o) ELSE UNCHANGED successVars
    /\ UNCHANGED <<storeVars, rowVars, scenario_idx, selected_scenario,
                   current_iteration, ghostVars>>

\* signatures of the records made so far in this run
RecordedSignatures ==
    Signatures(per_row_successful)
    \cup {existing_records[i].signature : i \in {k \in 1..Len(existing_records) :
                                                    existing_records[k].created_at > 0}}

\* the valid candidates and their signatures
Pool == [j \in 1..NumCandidates |-> ValidCandidate(j)]
PoolSignature == [j \in 1..NumCandidates |-> compute_problem_signature(Pool[j])]

\* the first valid candidate never recorded in this run
NextNew ==
    LET recorded == RecordedSignatures
        used == {j \in 1..NumCandidates : PoolSignature[j] \in recorded}
    IN  IF used = {} THEN 1
        ELSE Min(NumCandidates, 1 + CHOOSE j \in used : \A k \in used : k <= j)

\* a failing answer is given only while the row has faults left
Faulty == faults < MaxFaults /\ faults' = faults + 1
Sound == faults' = faults

\* a parsed answer that fails validation whatever the formulas of the row
FaultyCandidate(c) ==
    \/ c \in BadCandidates \cup {WrongShape}
    \/ SignatureInHistory(compute_problem_signature(c), previous_problems)

\* what a candidate-generation call can answer with, once parsed
Proposals ==
    LET next == NextNew
    IN  {Pool[j] : j \in 1..next}
        \cup (IF next > 2 THEN {PermutedCandidate} ELSE {})
        \cup BadCandidates \cup {WrongShape}

\* main:182-198: CALL 2 raises
Call2Raises ==
    /\ pc = "cycle"
    /\ Faulty
    /\ cycle_no' = cycle_no + 1
    /\ Step(Abandon([Fresh EXCEPT !.calls.call2 = 1, !.counted.parse_failures = @ + 1],
                    "call2 raised", cycle_no + 1))

\* main:198-202: the answer of CALL 2 does not parse
Call2Unparseable ==
    /\ pc = "cycle"
    /\ Faulty
    /\ cycle_no' = cycle_no + 1
    /\ Step([Fresh EXCEPT !.calls.call2 = 1, !.counted.parse_failures = @ + 1, !.pc = "call2a"])

\* main:198, 220-267: the answer of CALL 2 parses
Call2Parsed ==
    /\ pc = "cycle"
    /\ cycle_no' = cycle_no + 1
    /\ \E c \in Proposals :
          /\ IF FaultyCandidate(c) THEN Faulty ELSE Sound
          /\ Step(Validated([Fresh EXCEPT !.calls.call2 = 1], c, TRUE, cycle_no + 1))

\* main:203-213: the parse retry raises
Call2aRaises ==
    /\ pc = "call2a"
    /\ Faulty
    /\ UNCHANGED cycle_no
    /\ Step(Abandon([Current EXCEPT !.calls.call2 = @ + 1,
                                    !.feedback = ParseHint],
                    "call2a raised", cycle_no))

\* Call2aUnparseable that retries again
Call2aUnparseable_RetryAgain ==
    /\ pc = "call2a"
    /\ Faulty
    /\ UNCHANGED cycle_no
    /\ Step([Current EXCEPT !.calls.call2 = @ + 1, !.feedback = ParseHint,
                            !.counted.parse_failures = @ + 1])

\* main:214-218: the answer of the parse retry does not parse either
Call2aUnparseable ==
    /\ pc = "call2a"
    /\ Faulty
    /\ UNCHANGED cycle_no
    /\ Step(Abandon([Current EXCEPT !.calls.call2 = @ + 1,
                                    !.feedback = ParseHint, !.counted.parse_failures = @ + 1],
                    "parse failed", cycle_no))

\* main:214, 220-267: the answer of the parse retry parses
Call2aParsed ==
    /\ pc = "call2a"
    /\ UNCHANGED cycle_no
    /\ \E c \in Proposals :
          /\ IF FaultyCandidate(c) THEN Faulty ELSE Sound
          /\ Step(Validated([Current EXCEPT !.calls.call2 = @ + 1,
                                         !.feedback = ParseHint],
                         c, TRUE, cycle_no))

\* main:229-244: the validation retry raises
Call2bRaises ==
    /\ pc = "call2b"
    /\ Faulty
    /\ UNCHANGED cycle_no
    /\ Step(Abandon([Current EXCEPT !.calls.call2 = @ + 1,
                                    !.feedback = validation_result.error,
                                    !.counted.parse_failures = @ + 1],
                    "call2b raised", cycle_no))

\* Call2bUnparseable that asks for another answer
Call2bUnparseable_RetryAgain ==
    /\ pc = "call2b"
    /\ Faulty
    /\ UNCHANGED cycle_no
    /\ Step([Current EXCEPT !.calls.call2 = @ + 1,
                            !.feedback = validation_result.error,
                            !.counted.parse_failures = @ + 1])

\* main:245-249: the answer of the validation retry does not parse
Call2bUnparseable ==
    /\ pc = "call2b"
    /\ Faulty
    /\ UNCHANGED cycle_no
    /\ Step(Abandon([Current EXCEPT !.calls.call2 = @ + 1,
                                    !.feedback = validation_result.error,
                                    !.counted.parse_failures = @ + 1],
                    "retry parse failed", cycle_no))

\* main:245-267: the answer of the validation retry parses
Call2bParsed ==
    /\ pc = "call2b"
    /\ UNCHANGED cycle_no
    /\ \E c \in Proposals :
          /\ IF FaultyCandidate(c) THEN Faulty ELSE Sound
          /\ Step(Validated([Current EXCEPT !.calls.call2 = @ + 1,
                                         !.feedback = validation_result.error],
                         c, FALSE, cycle_no))

\* main:269-280: CALL 3 raises
Call3Raises ==
    /\ pc = "call3"
    /\ Faulty
    /\ UNCHANGED cycle_no
    /\ Step(Abandon([Current EXCEPT !.calls.call3 = @ + 1, !.counted.execution_failures = @ + 1],
                    "call3 raised", cycle_no))

\* main:285-290, 313-336: CALL 3 answers with code
Call3Answers ==
    /\ pc = "call3"
    /\ UNCHANGED cycle_no
    /\ \E code \in Codes :
          /\ IF code # CodePositive THEN Faulty ELSE Sound
          /\ Step(Executed([Current EXCEPT !.calls.call3 = @ + 1], code, TRUE,
                        cycle_no))

\* main:293-304: the code retry raises
Call3aRaises ==
    /\ pc = "call3a"
    /\ Faulty
    /\ UNCHANGED cycle_no
    /\ Step(Abandon([Current EXCEPT !.calls.call3 = @ + 1,
                                    !.feedback = action3_result.error,
                                    !.counted.execution_failures = @ + 1],
                    "call3a raised", cycle_no))

\* main:305-311, 313-336: the code retry answers with code
Call3aAnswers ==
    /\ pc = "call3a"
    /\ UNCHANGED cycle_no
    /\ \E code \in Codes :
          /\ IF code # CodePositive THEN Faulty ELSE Sound
          /\ Step(Executed([Current EXCEPT !.calls.call3 = @ + 1,
                                        !.feedback = action3_result.error],
                        code, FALSE, cycle_no))

(***************************************************************************)
(* PERSIST (main:340-352) and atomic_write_json (pg_helpers.py:226-233)    *)
(***************************************************************************)
\* MergeRecords without the membership test
RECURSIVE MergeRecords_NoTest(_, _, _, _)
MergeRecords_NoTest(records, sigs, new, k) ==
    IF k = 0 THEN [records |-> records, sigs |-> sigs]
    ELSE LET m == MergeRecords_NoTest(records, sigs, new, k - 1)
         IN  [records |-> Append(m.records, new[k]),
              sigs |-> m.sigs \cup {new[k].signature}]

\* MergeRecords that does not add the signature of an appended record
RECURSIVE MergeRecords_NoAdd(_, _, _, _)
MergeRecords_NoAdd(records, sigs, new, k) ==
    IF k = 0 THEN [records |-> records, sigs |-> sigs]
    ELSE LET m == MergeRecords_NoAdd(records, sigs, new, k - 1)
             rec == new[k]
         IN  IF rec.signature \notin m.sigs
             THEN [records |-> Append(m.records, rec), sigs |-> m.sigs]
             ELSE m

\* main:344-348: the store after merging the records new[1..k]
RECURSIVE MergeRecords(_, _, _, _)
MergeRecords(records, sigs, new, k) ==
    IF k = 0 THEN [records |-> records, sigs |-> sigs]
    ELSE LET m == MergeRecords(records, sigs, new, k - 1)
             rec == new[k]
         IN  IF rec.signature \notin m.sigs
             THEN [records |-> Append(m.records, rec),
                   sigs |-> m.sigs \cup {rec.signature}]
             ELSE m

\* main:158, 340-348: the loop has ended; merge the row's records
Merge ==
    /\ UNCHANGED faults
    /\ persisted' = persisted \cup {row_index}
    /\ UNCHANGED <<reached, writes>>
    /\ pc = "loop"
    /\ ~LoopCondition(current_iteration, per_row_successful)
    /\ LET m == MergeRecords(existing_records, existing_signatures,
                             per_row_successful, Len(per_row_successful))
       IN  /\ existing_records' = m.records
           /\ existing_signatures' = m.sigs
    /\ pc' = "write_tmp"
    /\ ClearCycle
    /\ UNCHANGED <<file, tmp_file, initial_file, rowVars, loopVars,
                   duplicates_skipped, successVars>>

\* WriteTmp that writes the records of the row only
WriteTmp_OnlyNew ==
    /\ UNCHANGED <<faults, ghostVars>>
    /\ pc = "write_tmp"
    /\ tmp_file' = ListFile(per_row_successful)
    /\ pc' = "replace"
    /\ UNCHANGED <<file, initial_file, existing_records, existing_signatures,
                   rowVars, loopVars, cycleVars, counterVars, successVars>>

\* pg_helpers.py:230-232: the .tmp file is written
WriteTmp ==
    /\ UNCHANGED <<faults, ghostVars>>
    /\ pc = "write_tmp"
    /\ tmp_file' = ListFile(existing_records)
    /\ pc' = "replace"
    /\ UNCHANGED <<file, initial_file, existing_records, existing_signatures,
                   rowVars, loopVars, cycleVars, counterVars, successVars>>

\* WriteTmpFails that goes back to the records of the store file
WriteTmpFails_Reloads ==
    /\ UNCHANGED <<faults, ghostVars>>
    /\ pc = "write_tmp"
    /\ tmp_file' = Partial
    /\ existing_records' = file.data
    /\ existing_signatures' = Signatures(file.data)
    /\ pc' = "rows"
    /\ UNCHANGED <<file, initial_file, rowVars, loopVars, cycleVars,
                   counterVars, successVars>>

\* pg_helpers.py:231-232, main:351-352: json.dump raises; the .tmp file holds a
\* part of the new content
WriteTmpFails ==
    /\ UNCHANGED <<faults, ghostVars>>
    /\ pc = "write_tmp"
    /\ tmp_file' = Partial
    /\ pc' = "rows"
    /\ UNCHANGED <<file, initial_file, existing_records, existing_signatures,
                   rowVars, loopVars, cycleVars, counterVars, successVars>>

\* pg_helpers.py:233: os.replace(tmp_path, path)
Replace ==
    /\ UNCHANGED <<faults, persisted, reached>>
    /\ pc = "replace"
    /\ file' = tmp_file
    /\ tmp_file' = Absent
    /\ writes' = [writes EXCEPT ![row_index] = @ + 1]
    /\ pc' = "rows"
    /\ UNCHANGED <<initial_file, existing_records, existing_signatures,
                   rowVars, loopVars, cycleVars, counterVars, successVars>>

\* pg_helpers.py:233, main:351-352: os.replace raises; both files stay
ReplaceFails ==
    /\ UNCHANGED <<faults, ghostVars>>
    /\ pc = "replace"
    /\ pc' = "rows"
    /\ UNCHANGED <<storeVars, rowVars, loopVars, cycleVars, counterVars,
                   successVars>>

\* CrashInWrite for a write that goes to the store path itself
CrashInWrite_InPlace ==
    /\ UNCHANGED <<faults, ghostVars>>
    /\ pc = "write_tmp"
    /\ file' = Partial
    /\ pc' = "crashed"
    /\ UNCHANGED <<tmp_file, initial_file, existing_records,
                   existing_signatures, rowVars, loopVars, cycleVars,
                   counterVars, successVars>>

\* the process is killed while json.dump writes the .tmp file
\* (pg_helpers.py:231-232)
CrashInWrite ==
    /\ UNCHANGED <<faults, ghostVars>>
    /\ pc = "write_tmp"
    /\ tmp_file' = Partial
    /\ pc' = "crashed"
    /\ UNCHANGED <<file, initial_file, existing_records, existing_signatures,
                   rowVars, loopVars, cycleVars, counterVars, successVars>>

\* the process is killed between the close of the .tmp file and os.replace
\* (pg_helpers.py:232-233)
CrashBeforeReplace ==
    /\ UNCHANGED <<faults, ghostVars>>
    /\ pc = "replace"
    /\ pc' = "crashed"
    /\ UNCHANGED <<storeVars, rowVars, loopVars, cycleVars, counterVars,
                   successVars>>

Next ==
    \/ LoadStore
    \/ RowCall1Raises
    \/ RowCall1WrongShape
    \/ RowAnalyze
    \/ Call1ARaises
    \/ Call1AAnswers
    \/ Call1AWrongShape
    \/ Finish
    \/ StartIteration
    \/ Call2Raises
    \/ Call2Unparseable
    \/ Call2Parsed
    \/ Call2aRaises
    \/ Call2aUnparseable
    \/ Call2aParsed
    \/ Call2bRaises
    \/ Call2bUnparseable
    \/ Call2bParsed
    \/ Call3Raises
    \/ Call3Answers
    \/ Call3aRaises
    \/ Call3aAnswers
    \/ Merge
    \/ WriteTmp
    \/ WriteTmpFails
    \/ Replace
    \/ ReplaceFails
    \/ CrashInWrite
    \/ CrashBeforeReplace

Spec == Init /\ [][Next]_vars

\* the script is one thread that runs until it ends: every call returns or raises
FairSpec == Spec /\ WF_vars(Next)

(***************************************************************************)
(* Properties                                                              *)
(***************************************************************************)
\* every record the script holds or has written
StoredRecords ==
    Range(per_row_successful) \cup Range(existing_records)
    \cup Range(file.data) \cup Range(tmp_file.data)

\* C1: a record is appended to the success list only by a cycle whose last
\* validation and last execution are valid, and every record of the success
\* list and of the store carries validation_result.valid and
\* execution_result.valid.
C1_RecordsValid ==
    /\ [](\A r \in StoredRecords :
             r.validation_result.valid /\ r.execution_result.valid)
    /\ [][Len(per_row_successful') > Len(per_row_successful)
            => /\ validation_result'.valid
               /\ action3_result'.valid
               /\ outcome' = "recorded"
               /\ pc \in {"call3", "call3a"}]_vars

C1_Witness ==
    /\ per_row_successful # <<>>
    /\ file.kind = "list"
    /\ \E r \in Range(file.data) : r.created_at > 0

Distinct(records) ==
    \A i, j \in 1..Len(records) :
        i # j => records[i].signature # records[j].signature

\* C2: from a store with pairwise distinct signatures, the store in memory and
\* the store file never hold two records with one signature, and the signature
\* set is the set of the signatures of the records in memory.
C2_StoreSignaturesUnique ==
    Distinct(initial_file.data) =>
        /\ Distinct(existing_records)
        /\ Distinct(file.data)
        /\ Distinct(tmp_file.data)
        /\ pc # "load" => existing_signatures = Signatures(existing_records)

\* a PERSIST has skipped a record whose signature was in the store
C2_Witness ==
    /\ file.kind = "list"
    /\ Len(file.data) >= 2
    /\ Len(file.data) < Len(initial_file.data) + now
    /\ persisted = 1..row_index
    /\ row_index = NumRows

\* the step starts an iteration, starts a cycle, records a success
IterationStarts == current_iteration' = current_iteration + 1
CycleStarts == cycle_no' = cycle_no + 1
Records == now' = now + 1

\* C3: the loop of a seed pair runs at most max_iterations iterations, no
\* iteration is started once the success list holds target_problems records,
\* and a seed pair whose processing has ended has reached PERSIST: whenever
\* the script is between two pairs or has ended, every pair it has taken up
\* has been merged and handed to the store writer.
C3_LoopBoundedAndPersists ==
    /\ current_iteration <= max_iterations
    /\ (pc = "cycle" /\ cycle_no = 0) => Len(per_row_successful) < target_problems
    /\ pc \in {"rows", "done", "aborted"} => persisted = 1..row_index

\* C4 as stated: no cycle is started once the success list holds
\* target_problems records, and the list never holds more than that.
C4_NeverAboveTarget ==
    /\ Len(per_row_successful) <= target_problems
    /\ pc = "cycle" => Len(per_row_successful) < target_problems

\* C4: no further iteration is started once the success list of a seed pair
\* holds target_problems records; the second cycle of the iteration in which
\* the target is reached still runs, so the list holds at most
\* target_problems - 1 + CyclesPerIteration records.
C4_TargetBoundsIterations ==
    /\ [](Len(per_row_successful) <= target_problems - 1 + CyclesPerIteration)
    /\ [][IterationStarts => Len(per_row_successful) < target_problems]_vars
    /\ [][(CycleStarts /\ Len(per_row_successful) >= target_problems)
            => (cycle_no = 1 /\ Len(per_row_successful) = target_problems)]_vars

C4_Witness == Len(per_row_successful) = target_problems + 1

\* the step leaves the cycle without a record
AbandonsCycle ==
    /\ pc' = EndPc(cycle_no)
    /\ UNCHANGED <<per_row_successful, previous_problems, now>>

\* C5: a cycle whose candidate validation has rejected makes exactly one
\* corrective call, with the validator's error message as feedback, and
\* validates its answer once; when that validation fails too the cycle is
\* abandoned without a record and the next cycle or iteration follows.  No
\* cycle validates three candidates.
C5_ValidationRetryOnce ==
    /\ [](calls.validate <= 2)
    /\ [](pc = "call2b" => (~validation_result.valid /\ calls.validate = 1))
    /\ [][pc = "call2b"
            => /\ calls'.call2 = calls.call2 + 1
               /\ feedback' = validation_result.error
               /\ calls'.validate <= 2
               /\ pc' \in {"call3", "aborted", EndPc(cycle_no)}
               /\ (calls'.validate = 2 /\ pc' \notin {"call3", "aborted"})
                     => (AbandonsCycle /\ outcome' \in {"validation failed", "duplicate"})
               /\ pc' = "call3" => (calls'.validate = 2 /\ validation_result'.valid)]_vars

\* the second validation of a cycle has failed and the cycle is abandoned
C5_Witness ==
    /\ outcome = "validation failed"
    /\ calls.validate = 2
    /\ feedback \notin {NoFeedback, ParseHint}

\* C6: a cycle whose code execution has rejected makes exactly one corrective
\* code call, with the executor's error message as feedback, and executes its
\* answer once; when that execution fails too the cycle is abandoned without a
\* record.  No cycle executes three pieces of code.
C6_ExecutionRetryOnce ==
    /\ [](calls.execute <= 2 /\ calls.call3 <= 2)
    /\ [](pc = "call3a" => (~action3_result.valid /\ calls.execute = 1))
    /\ [][pc = "call3a"
            => /\ calls'.call3 = calls.call3 + 1
               /\ calls'.execute <= 2
               /\ outcome' # "recorded" => (feedback' = action3_result.error /\ AbandonsCycle)
               /\ outcome' = "recorded" => (calls'.execute = 2 /\ action3_result'.valid)
               /\ pc' = EndPc(cycle_no)]_vars

\* the second execution of a cycle has failed and the cycle is abandoned
C6_Witness ==
    /\ outcome = "execution failed"
    /\ calls.execute = 2
    /\ feedback # NoFeedback

\* C7: a cycle whose first answer does not parse makes exactly one corrective
\* call, with the parse-failure hint as feedback; when its answer does not
\* parse either the cycle is abandoned and nothing has been validated.
C7_ParseRetryOnce ==
    /\ [](pc = "call2a" => (calls.call2 = 1 /\ calls.validate = 0))
    /\ [][pc = "call2a"
            => /\ calls'.call2 = 2
               /\ feedback' = ParseHint
               /\ pc' # "call2a"
               /\ outcome' \in {"parse failed", "call2a raised"}
                     => (calls'.validate = 0 /\ AbandonsCycle)
               /\ calls'.validate = 0
                     => (outcome' \in {"parse failed", "call2a raised"}
                         \/ pc' = "aborted")]_vars
    /\ [](outcome = "parse failed" => (calls.call2 = 2 /\ calls.validate = 0))

\* the parse retry has failed to parse and the cycle is abandoned
C7_Witness ==
    /\ outcome = "parse failed"
    /\ feedback = ParseHint
    /\ pc \in {"cycle", "loop"}

Last(seq) == seq[Len(seq)]

\* C8: a RECORD puts the new {signature, snippet, created_at} entry at the
\* head of previous_problems, keeps the 10 most recent entries and appends the
\* success record to per_row_successful; after it the signature at the head
\* of the window is the signature of the last record of the success list.
\* Nothing else changes the window or the list within a seed pair.
C8_RecordUpdatesTogether ==
    /\ [][Records
            => /\ Len(per_row_successful') = Len(per_row_successful) + 1
               /\ SubSeq(per_row_successful', 1, Len(per_row_successful))
                     = per_row_successful
               /\ previous_problems'[1] =
                     [signature |-> signature',
                      snippet |-> Snippet(op_call2_data'.word_problem),
                      created_at |-> now']
               /\ Len(previous_problems') = Min(Len(previous_problems) + 1, WindowSize)
               /\ \A i \in 2..Len(previous_problems') :
                      previous_problems'[i] = previous_problems[i - 1]
               /\ previous_problems'[1].signature = Last(per_row_successful').signature
               /\ previous_problems'[1].created_at = Last(per_row_successful').created_at
               /\ previous_problems'[1].snippet
                     = Snippet(Last(per_row_successful').word_problem)]_vars
    /\ [][(previous_problems' # previous_problems
            \/ Len(per_row_successful') > Len(per_row_successful)) => Records]_vars

\* a RECORD has been made on a window that held other entries
C8_Witness ==
    /\ outcome = "recorded"
    /\ Len(previous_problems) >= 2
    /\ previous_problems[1].signature = Last(per_row_successful).signature

\* C9: previous_problems holds at most 10 entries, most recent first: its
\* i-th entry is the entry of the i-th most recent RECORD of the run, and a
\* RECORD on a full window drops the last entry, which is the oldest.
C9_WindowMostRecentFirst ==
    /\ [](Len(previous_problems) = Min(now, WindowSize))
    /\ [](\A i \in 1..Len(previous_problems) :
             previous_problems[i].created_at = now - i + 1)
    /\ [][(Records /\ Len(previous_problems) = WindowSize)
            => /\ SubSeq(previous_problems', 2, WindowSize)
                     = SubSeq(previous_problems, 1, WindowSize - 1)
               /\ \A i \in 1..WindowSize :
                      previous_problems[WindowSize].created_at
                        <= previous_problems[i].created_at
               /\ \A i \in 1..WindowSize :
                      previous_problems'[i].created_at
                        > previous_problems[WindowSize].created_at]_vars

\* a RECORD has been made on a full window
C9_Witness ==
    /\ now > WindowSize
    /\ outcome = "recorded"
    /\ Len(previous_problems) = WindowSize

\* C10: at the start of each seed pair previous_problems is empty and the
\* iteration counter, the scenario index and the success list are zero or
\* empty, and while a seed pair is processed a candidate is rejected with
\* 'Duplicate problem signature' only for signatures recorded for that pair.
C10_WindowResetPerPair ==
    /\ (pc = "loop" /\ current_iteration = 0)
          => /\ previous_problems = <<>>
             /\ scenario_idx = 0
             /\ per_row_successful = <<>>
    /\ (pc = "call2b" /\ validation_result.error.msg = "Duplicate problem signature")
          => Signatures(previous_problems) \subseteq Signatures(per_row_successful)

\* the positions inside the iteration loop of a seed pair
LoopPcs == {"loop", "cycle", "call2a", "call2b", "call3", "call3a"}

\* C11: the store file is replaced exactly once for each seed pair that
\* reaches the iteration loop: never while the pair is in its loop, never
\* twice, and once the script has left the pair (it is between two pairs or
\* has ended) the pair's write has been made.
C11_WrittenOncePerPair ==
    /\ \A r \in 1..NumRows : writes[r] <= 1
    /\ \A r \in 1..NumRows : writes[r] = 1 => r \in reached
    /\ pc \in LoopPcs => writes[row_index] = 0
    /\ pc \in {"rows", "done", "aborted"} => \A r \in reached : writes[r] = 1

\* the step that merges the success list of a seed pair into the store
Merges == pc = "loop" /\ pc' = "write_tmp"

\* C12: merging the success list of a seed pair a second time into the
\* merged store appends nothing: records and signature set stay as they are.
C12_MergeIdempotent ==
    [][Merges =>
          MergeRecords(existing_records', existing_signatures',
                       per_row_successful, Len(per_row_successful))
            = [records |-> existing_records', sigs |-> existing_signatures']]_vars

\* a merge has appended records of a seed pair to a store that held some
C12_Witness ==
    /\ pc = "write_tmp"
    /\ per_row_successful # <<>>
    /\ Len(existing_records) > Len(per_row_successful)

IsPrefix(a, b) == Len(a) <= Len(b) /\ SubSeq(b, 1, Len(a)) = a

C14_WriteAtomic ==
    /\ [](file.kind # "partial")
    /\ [][file' # file
            => /\ pc = "replace"
               /\ tmp_file = ListFile(existing_records)
               /\ file' = ListFile(existing_records)]_vars
    /\ [][pc = "write_tmp" => file' = file]_vars
    /\ [][pc' = "crashed" => (file' = file /\ file.kind # "partial")]_vars

\* a crash in the middle of the write of a store with new records
C14_Witness ==
    /\ pc = "crashed"
    /\ tmp_file = Partial
    /\ file.kind = "list"
    /\ Len(existing_records) > Len(file.data)

\* C15: a store file that does not hold a JSON array is left as it is: the
\* run does not replace it with a store built from the new records.
C15_NonArrayFileKept ==
    initial_file.kind = "not a list" => file = initial_file

\* the records of a seed pair in the merged store
RecordsOfPair(r) == {rec \in Range(existing_records) : rec.Pair_Number = r}

\* C16: the records of a seed pair whose store write has failed stay in
\* existing_records and existing_signatures, and the next write that
\* succeeds puts them into the store file.
C16_FailedWriteKeepsResults ==
    /\ [][Merges
            => \A i \in 1..Len(per_row_successful) :
                  /\ per_row_successful[i].signature \in existing_signatures'
                  /\ \E j \in 1..Len(existing_records') :
                        existing_records'[j].signature
                          = per_row_successful[i].signature]_vars
    /\ [][(pc = "write_tmp" \/ pc = "replace")
            => (existing_records' = existing_records
                /\ existing_signatures' = existing_signatures)]_vars
    /\ [][pc # "load"
            => /\ IsPrefix(existing_records, existing_records')
               /\ existing_signatures \subseteq existing_signatures']_vars
    /\ [][writes' # writes => file' = ListFile(existing_records)]_vars
    /\ [](\A r, q \in 1..NumRows :
             (r < q /\ r \in persisted /\ writes[r] = 0 /\ writes[q] = 1)
               => RecordsOfPair(r) \subseteq Range(file.data))

\* the write of the first pair has failed, the write of the second has put
\* the records of the first into the store file
C16_Witness ==
    /\ 1 \in persisted
    /\ writes[1] = 0
    /\ writes[2] = 1
    /\ RecordsOfPair(1) # {}
    /\ RecordsOfPair(1) \subseteq Range(file.data)

\* the positions inside a generation cycle, and the step in which an
\* external model call of a cycle raises
CyclePcs == {"cycle", "call2a", "call2b", "call3", "call3a"}
RaisedOutcomes ==
    {"call2 raised", "call2a raised", "call2b raised", "call3 raised",
     "call3a raised"}
CallRaises == pc \in CyclePcs /\ outcome' \in RaisedOutcomes

\* C17: when an external model call of a generation cycle raises, the cycle
\* is abandoned without a record, nothing of the seed pair or of the store
\* changes, and the script stands at the next cycle of the iteration or at
\* the loop condition of the same seed pair.
C17_RaiseAbandonsCycleOnly ==
    /\ [][CallRaises
            => /\ pc' = EndPc(cycle_no')
               /\ per_row_successful' = per_row_successful
               /\ previous_problems' = previous_problems
               /\ now' = now
               /\ row_index' = row_index
               /\ current_iteration' = current_iteration
               /\ existing_records' = existing_records
               /\ file' = file]_vars
    /\ [](pc = "cycle" => cycle_no < CyclesPerIteration)

\* the code regeneration call has raised in a pair that holds records
C17_Witness ==
    /\ outcome = "call3a raised"
    /\ pc = "cycle"
    /\ per_row_successful # <<>>

\* C18: a seed pair none of whose identified chapters resolves to formulas
\* is abandoned: no iteration, hence no generation cycle, is started for it.
C18_UnresolvedPairAbandoned ==
    [][(pc = "loop" /\ current_iteration = 0 /\ identified_chapters # <<>>
          /\ available_formulas = {})
         => ~IterationStarts]_vars

\* the scenario of the k-th iteration of the seed pair
ScenarioOf(k) ==
    IF alternate_scenarios = <<>> THEN 0
    ELSE alternate_scenarios[((k - 1) % Len(alternate_scenarios)) + 1]

\* an iteration of the seed pair has started
InIteration == pc \in CyclePcs \/ (pc = "loop" /\ current_iteration > 0)

C20_SingleChapterCorrection ==
    /\ [](checks <= 1)
    /\ [][pc' = "call1a" => (pc = "rows" /\ checks' = 0)]_vars
    /\ [][pc = "call1a"
            => /\ checks' = 1
               /\ pc' \in {"loop", "aborted"}
               /\ LET named == op_call1a_data'.missing_chapter
                      asked == /\ op_call1a_data'.status = "NO"
                               /\ named # "none"
                               /\ named \notin Range(identified_chapters)
                  IN  /\ asked => /\ identified_chapters'
                                      = Append(identified_chapters, named)
                                  /\ available_formulas'
                                      = available_formulas \cup LoadChapter(named)
                      /\ ~asked => /\ identified_chapters' = identified_chapters
                                   /\ available_formulas' = available_formulas]_vars

\* the check has named a missing chapter and its formulas have been merged
C20_Witness ==
    /\ pc = "loop"
    /\ checks = 1
    /\ op_call1a_data.status = "NO"
    /\ identified_chapters = <<"optics", "waves", "kinematics">>
    /\ formula_id_set = KnownFormulaIds

(***************************************************************************)
(* The helpers of pg_helpers.py on their own.  validate_problem,           *)
(* compute_problem_signature and execute_and_validate_in_repl are          *)
(* functions of their arguments; HelperSpec draws the arguments from       *)
(* bounded sets and applies each helper to them.  The candidate is         *)
(* op_call2_data, the history previous_problems, the results are           *)
(* validation_result, signature and action3_result, as in the script.      *)
(***************************************************************************)
\* longest formula_ids list enumerated
MaxFids == 2
\* largest variable map enumerated in full
MaxVars == 2
\* calls of validate_problem on the same arguments
MaxApplications == 2

\* formula ids a candidate may name: two known ones and one unknown to every chapter
HelperIds == {1, 2, 9}
HelperNames == {"mass", "acceleration"}
\* names of an unknown for the sign check: with a token, with a token in
\* capitals, with a token inside a longer name, without any token
SignNames == {"time", "distance", "Time", "total_energy", "charge"}
\* the range table of Call1 for the helper runs
HelperRanges == [name \in {"mass", GivenVar} |-> [min |-> 1, max |-> 10]]
\* values of a variable: below, on and above the bounds of its range, inside
\* it, the sentinel the prompts ask for ("NaN") and the word "unknown"
HelperValues ==
    {Num(0), Num(1), Num(4), Num(10), Num(11), Str("NaN"), Str("unknown")}
BoundaryValues == {Num(0), Num(1), Num(10), Num(11), Str("unknown")}

SeqsUpTo(S, n) == UNION {[1..k -> S] : k \in 0..n}

HelperFids == SeqsUpTo(HelperIds, MaxFids)

\* a JSON object has no key twice
DistinctNames(variables) ==
    \A i, j \in 1..Len(variables) :
        variables[i].name = variables[j].name => i = j

HelperVariables ==
    {v \in SeqsUpTo([name : HelperNames, value : HelperValues], MaxVars) :
        DistinctNames(v)}
    \cup {<<Var("mass", a), Var(GivenVar, b), Var("acceleration", Str("NaN"))>> :
            a \in BoundaryValues, b \in BoundaryValues}
    \cup {<<Var(name, Str("NaN"))>> : name \in SignNames}

HelperCandidates ==
    {[word_problem |-> [id |-> 0, len |-> 60], formula_ids |-> f, variables |-> v] :
        f \in HelperFids, v \in HelperVariables}

\* formula_ids ["F1","F2"], mass 4 kg, the acceleration marked with value
ScenarioCandidate(value) ==
    [word_problem |-> [id |-> 0, len |-> 60], formula_ids |-> <<1, 2>>,
     variables |-> <<Var("mass", Num(4)), Var("acceleration", value)>>]

\* main:330-337 after ten records: the newest entry first
Window ==
    [i \in 1..WindowSize |->
        LET c == ValidCandidate(WindowSize + 1 - i)
        IN  HistoryEntry(c, compute_problem_signature(c), WindowSize + 1 - i)]

HelperHistories ==
    LET scenario == ScenarioCandidate(Str("NaN"))
    IN  {<<>>,
         Window,
         SubSeq(Window, 1, 7),
         <<HistoryEntry(scenario, compute_problem_signature(scenario), WindowSize)>>
            \o SubSeq(Window, 2, WindowSize)}

\* a piece of code by the names it leaves in repl_globals: its callables, its
\* other globals, what solve() returns and what any other callable returns
Program(callables, plain, ret) ==
    Code(FALSE, "solve" \in callables, FALSE, ret)
    @@ [callables |-> callables, plain |-> plain, other_ret |-> Num(7)]

HelperCodes ==
    {Program({"solve"}, {}, Num(5)),
     Program({"solve"}, {}, Num(0)),
     Program({"solve"}, {}, HugeInt(1)),
     Program({"solve"}, {}, HugeInt(-1)),
     Program({"solve", "helper"}, {}, Num(-5)),
     Program({"solve"}, {"g"}, FloatNaN),
     Program({"helper", "main"}, {}, None),
     Program({"helper"}, {"solve"}, None),
     Program({}, {"g"}, None),
     Code(FALSE, TRUE, TRUE, None)
         @@ [callables |-> {"solve"}, plain |-> {}, other_ret |-> Num(7)],
     NoCode @@ [callables |-> {}, plain |-> {}, other_ret |-> Num(7)]}

\* the names of the formula ids 1..9
FidText(n) == <<"F1", "F2", "F3", "F4", "F5", "F6", "F7", "F8", "F9">>[n]

\* ','.join(sorted_fids)
JoinFids(fids) ==
    LET F[i \in 0..Len(fids)] ==
            IF i = 0 THEN ""
            ELSE IF i = 1 THEN FidText(fids[1])
            ELSE F[i-1] \o "," \o FidText(fids[i])
    IN  F[Len(fids)]

\* pg_helpers.py:106: f"fids=[{','.join(sorted_fids)}]|unknown={unknown}"
SignatureText(sig) == "fids=[" \o JoinFids(sig.fids) \o "]|unknown=" \o sig.unknown

HelperInit ==
    /\ pc = "input"
    /\ op_call2_data \in HelperCandidates
    /\ formula_id_set = KnownFormulaIds
    /\ variable_ranges \in {NoRanges, HelperRanges}
    /\ previous_problems \in HelperHistories
    /\ file = Absent
    /\ initial_file = Absent
    /\ tmp_file = Absent
    /\ existing_records = <<>>
    /\ existing_signatures = {}
    /\ row_index = 1
    /\ identified_chapters = <<>>
    /\ available_formulas = {}
    /\ op_call1a_data = NoAnswer
    /\ checks = 0
    /\ alternate_scenarios = <<>>
    /\ scenario_idx = 0
    /\ selected_scenario = 0
    /\ current_iteration = 1
    /\ per_row_successful = <<>>
    /\ cycle_no = 1
    /\ validation_result = NoResult
    /\ signature = NoSignature
    /\ code_text = NoCode
    /\ action3_result = NoExecResult
    /\ duplicates_skipped = 0
    /\ counted = NoCounts
    /\ now = 0
    /\ calls = NoCalls
    /\ feedback = NoFeedback
    /\ outcome = "running"
    /\ faults = 0
    /\ persisted = {}
    /\ reached = {}
    /\ writes = [r \in 1..NumRows |-> 0]

\* what a call of a helper cannot reach
helperFrame ==
    <<storeVars, rowVars, loopVars, counterVars, per_row_successful, now,
      feedback, outcome, faults, ghostVars>>

\* validate with a side effect: it files the candidate in the history
Validate_Records ==
    /\ pc \in {"input", "validated"}
    /\ calls.validate < MaxApplications
    /\ validation_result' = validate_problem(op_call2_data, formula_id_set,
                                             variable_ranges, previous_problems)
    /\ previous_problems' =
           <<HistoryEntry(op_call2_data, compute_problem_signature(op_call2_data), 0)>>
           \o SubSeq(previous_problems, 1, Min(Len(previous_problems), WindowSize - 1))
    /\ calls' = [calls EXCEPT !.validate = @ + 1]
    /\ pc' = "validated"
    /\ UNCHANGED <<helperFrame, op_call2_data, signature, code_text,
                   action3_result>>

\* main:221: validation_result = validate_problem(op_call2_data, formula_id_set,
\* variable_ranges, previous_problems)
Validate ==
    /\ pc \in {"input", "validated"}
    /\ calls.validate < MaxApplications
    /\ validation_result' = validate_problem(op_call2_data, formula_id_set,
                                             variable_ranges, previous_problems)
    /\ calls' = [calls EXCEPT !.validate = @ + 1]
    /\ pc' = "validated"
    /\ UNCHANGED <<helperFrame, op_call2_data, previous_problems, signature,
                   code_text, action3_result>>

\* main:263: signature = compute_problem_signature(op_call2_data)
Sign ==
    /\ pc = "validated"
    /\ calls.validate = 1
    /\ signature' = compute_problem_signature(op_call2_data)
    /\ pc' = "signed"
    /\ UNCHANGED <<helperFrame, op_call2_data, previous_problems,
                   validation_result, code_text, action3_result, calls>>

\* main:286: action3_result = execute_and_validate_in_repl(code_text, variables)
Execute ==
    /\ pc = "input"
    /\ \E code \in HelperCodes :
          /\ code_text' = code
          /\ action3_result' =
                 execute_and_validate_in_repl(code, op_call2_data.variables)
    /\ calls' = [calls EXCEPT !.execute = @ + 1]
    /\ pc' = "executed"
    /\ UNCHANGED <<helperFrame, op_call2_data, previous_problems,
                   validation_result, signature>>

HelperNext == Validate \/ Sign \/ Execute

HelperSpec == HelperInit /\ [][HelperNext]_vars

(***************************************************************************)
(* Properties of the helpers                                               *)
(***************************************************************************)
\* validate_problem has been applied to the arguments of the state
HasValidated == pc \in {"validated", "signed"}

\* the four checks of validate_problem, each stated on its own
UnknownCount(c) ==
    Cardinality({i \in 1..Len(c.variables) : IsNanValue(c.variables[i].value)})
ViolatesFormulaIds(c, known) == \E f \in Range(c.formula_ids) : f \notin known
ViolatesUnknownCount(c) == UnknownCount(c) # 1
OutOfRange(var, ranges) ==
    /\ ~IsNanValue(var.value)
    /\ var.name \in DOMAIN ranges
    /\ var.value.t = "num"
    /\ (var.value.n < ranges[var.name].min \/ var.value.n > ranges[var.name].max)
NotANumber(var, ranges) ==
    /\ ~IsNanValue(var.value)
    /\ var.name \in DOMAIN ranges
    /\ var.value.t # "num"
ViolatesRange(c, ranges) ==
    \E v \in Range(c.variables) : OutOfRange(v, ranges) \/ NotANumber(v, ranges)
ViolatesUniqueness(c, history) ==
    compute_problem_signature(c) \in {e.signature : e \in Range(history)}

Violated(c, known, ranges, history) ==
    {k \in 1..4 : \/ k = 1 /\ ViolatesFormulaIds(c, known)
                  \/ k = 2 /\ ViolatesUnknownCount(c)
                  \/ k = 3 /\ ViolatesRange(c, ranges)
                  \/ k = 4 /\ ViolatesUniqueness(c, history)}

\* the check an outcome of validate reports, 0 for valid
ReportedCheck(vr) ==
    IF vr.valid THEN 0
    ELSE CASE vr.error.msg = "Invalid formula_id" -> 1
           [] vr.error.msg = "Must have exactly 1 unknown, found" -> 2
           [] vr.error.msg = "has an invalid numerical value" -> 3
           [] vr.error.msg = "is out of expected range" -> 3
           [] vr.error.msg = "Duplicate problem signature" -> 4
           [] OTHER -> 5

ViolatedHere ==
    Violated(op_call2_data, formula_id_set, variable_ranges, previous_problems)

\* C21: for a candidate that passes checks 1 to 3, validate returns valid=false
\* with error 'Duplicate problem signature' exactly when the signature of the
\* candidate is the signature of an entry of the history, whichever of its up
\* to ten entries that is.
C21_DuplicateIffInHistory ==
    (HasValidated /\ ViolatedHere \cap {1, 2, 3} = {})
        => /\ Len(previous_problems) <= WindowSize
           /\ (validation_result = Invalid("Duplicate problem signature", <<>>))
                <=> ViolatesUniqueness(op_call2_data, previous_problems)
           /\ validation_result.valid
                <=> ~ViolatesUniqueness(op_call2_data, previous_problems)

\* the candidate repeats the oldest of ten entries
C21_Witness ==
    /\ HasValidated
    /\ Len(previous_problems) = WindowSize
    /\ previous_problems[WindowSize].signature
           = compute_problem_signature(op_call2_data)
    /\ \A i \in 1..(WindowSize - 1) :
           previous_problems[i].signature # compute_problem_signature(op_call2_data)
    /\ validation_result = Invalid("Duplicate problem signature", <<>>)

\* C22: validate applies the checks in the order formula-id, unknown-count,
\* range, duplicate-signature and stops at the first that fails: the error it
\* reports is that of the lowest-numbered check the candidate violates, and a
\* candidate that violates none is valid.
C22_FirstViolatedCheckReported ==
    HasValidated
        => IF ViolatedHere = {}
           THEN validation_result.valid
           ELSE /\ ~validation_result.valid
                /\ ReportedCheck(validation_result) \in ViolatedHere
                /\ \A k \in ViolatedHere : ReportedCheck(validation_result) <= k

\* a candidate that violates the unknown-count check and the uniqueness check
C22_Witness ==
    /\ HasValidated
    /\ {2, 4} \subseteq ViolatedHere
    /\ ReportedCheck(validation_result) = 2

\* C23: validate returns valid=false with error 'Invalid formula_id' whenever
\* one of the candidate's formula ids is not in the known set, whatever its
\* other ids, its variables and the history.
C23_UnknownFormulaIdRejected ==
    (HasValidated /\ ViolatesFormulaIds(op_call2_data, formula_id_set))
        => validation_result = Invalid("Invalid formula_id", <<>>)

\* one id is known and one is not, and nothing else is wrong with the candidate
C23_Witness ==
    /\ HasValidated
    /\ ViolatedHere = {1}
    /\ \E f \in Range(op_call2_data.formula_ids) : f \in formula_id_set
    /\ validation_result = Invalid("Invalid formula_id", <<>>)

\* C24: a candidate that passes the formula-id check is rejected with the
\* unknown-count error exactly when the number N of its variables that carry
\* the sentinel is not 1, and the error carries N.
C24_ExactlyOneUnknown ==
    (HasValidated /\ ~ViolatesFormulaIds(op_call2_data, formula_id_set))
        => /\ (ReportedCheck(validation_result) = 2)
                <=> UnknownCount(op_call2_data) # 1
           /\ UnknownCount(op_call2_data) # 1
                => validation_result
                     = Invalid("Must have exactly 1 unknown, found",
                               <<UnknownCount(op_call2_data)>>)

\* two variables carry the sentinel
C24_Witness ==
    /\ HasValidated
    /\ UnknownCount(op_call2_data) = 2
    /\ validation_result = Invalid("Must have exactly 1 unknown, found", <<2>>)

\* the range error of validate for a variable
RangeError(var, ranges) ==
    Invalid("is out of expected range",
            <<var.name, var.value.n, ranges[var.name].min, ranges[var.name].max>>)

\* the outcome is an error of the range check that names the variable
NamedByRangeCheck(vr, var) ==
    /\ ReportedCheck(vr) = 3
    /\ vr.error.args[1] = var.name

OnBoundary(var, ranges) ==
    /\ ~IsNanValue(var.value)
    /\ var.name \in DOMAIN ranges
    /\ var.value.t = "num"
    /\ var.value.n \in {ranges[var.name].min, ranges[var.name].max}

\* C25, as stated: every variable that is not the unknown, has a declared
\* range and a value strictly outside it makes validate return valid=false
\* with an error that names this variable and its value; a value equal to min
\* or max is accepted by the range check.
C25_OutOfRangeAlwaysNamed ==
    HasValidated
        => \A v \in Range(op_call2_data.variables) :
              /\ OutOfRange(v, variable_ranges)
                   => validation_result = RangeError(v, variable_ranges)
              /\ OnBoundary(v, variable_ranges)
                   => ~NamedByRangeCheck(validation_result, v)

\* C25, amended: every such variable makes validate return valid=false; the
\* error names the variable and its value when the candidate passes checks 1
\* and 2 and no earlier variable of the map fails the range check; a value
\* equal to min or max is accepted by the range check.
C25_FirstOutOfRangeNamed ==
    HasValidated
        => \A i \in 1..Len(op_call2_data.variables) :
              LET v == op_call2_data.variables[i]
                  earlier == {op_call2_data.variables[j] : j \in 1..(i - 1)}
              IN  /\ OutOfRange(v, variable_ranges) => ~validation_result.valid
                  /\ ( /\ OutOfRange(v, variable_ranges)
                       /\ ViolatedHere \cap {1, 2} = {}
                       /\ \A e \in earlier : /\ ~OutOfRange(e, variable_ranges)
                                             /\ ~NotANumber(e, variable_ranges) )
                       => validation_result = RangeError(v, variable_ranges)
                  /\ OnBoundary(v, variable_ranges)
                       => ~NamedByRangeCheck(validation_result, v)

\* two variables are out of range and the error names the first
C25_Witness ==
    /\ HasValidated
    /\ Len(op_call2_data.variables) = 3
    /\ OutOfRange(op_call2_data.variables[1], variable_ranges)
    /\ OutOfRange(op_call2_data.variables[2], variable_ranges)
    /\ validation_result = RangeError(op_call2_data.variables[1], variable_ranges)

\* the end-to-end scenario has been validated and signed
ScenarioDone(value) ==
    /\ pc = "signed"
    /\ op_call2_data = ScenarioCandidate(value)
    /\ previous_problems = <<>>
    /\ variable_ranges = HelperRanges

ScenarioOutcome ==
    /\ SignatureText(signature) = "fids=[F1,F2]|unknown=acceleration"
    /\ validation_result = [valid |-> TRUE, unknown_var |-> "acceleration"]

\* C26, as stated: with formula_ids [F1, F2], mass 4 inside its range and the
\* value of acceleration the string "unknown", the signature is
\* "fids=[F1,F2]|unknown=acceleration" and validate, with an empty history,
\* returns valid=true with unknown_var acceleration.
C26_ScenarioWithUnknownWord ==
    ScenarioDone(Str("unknown")) => ScenarioOutcome

\* C26, amended: the same holds when the value of acceleration is the sentinel
\* the code reads, a value whose text is "nan" in any letter case ("NaN").
C26_ScenarioWithNaN ==
    ScenarioDone(Str("NaN")) => ScenarioOutcome

C26_Witness == ScenarioDone(Str("NaN"))

\* a step that calls validate
CallsValidate == calls'.validate = calls.validate + 1

IsPermutation(q, f) ==
    /\ Len(q) = Len(f)
    /\ \A x \in Range(q) \cup Range(f) :
          Cardinality({i \in 1..Len(q) : q[i] = x})
              = Cardinality({i \in 1..Len(f) : f[i] = x})

\* the unknown variable of a candidate, "None" without any
UnknownOf(c) ==
    LET marked == {i \in 1..Len(c.variables) : IsNanValue(c.variables[i].value)}
    IN  IF marked = {} THEN "None"
        ELSE c.variables[CHOOSE i \in marked : \A j \in marked : i <= j].name

\* C28: the signature of a candidate does not change when its formula ids are
\* permuted and its unknown variable is kept, and two candidates with the same
\* formula ids and different unknown variables have different signatures.
C28_SignaturePermutationInvariant ==
    pc = "signed"
        => /\ \A q \in HelperFids :
                 IsPermutation(q, op_call2_data.formula_ids)
                   => LET d == [op_call2_data EXCEPT !.formula_ids = q]
                      IN  /\ compute_problem_signature(d) = signature
                          /\ SignatureText(compute_problem_signature(d))
                                = SignatureText(signature)
           /\ \A v \in HelperVariables :
                 LET d == [op_call2_data EXCEPT !.variables = v]
                 IN  ( /\ UnknownOf(d) # "None"
                       /\ UnknownOf(op_call2_data) # "None"
                       /\ UnknownOf(d) # UnknownOf(op_call2_data) )
                       => /\ compute_problem_signature(d) # signature
                          /\ SignatureText(compute_problem_signature(d))
                                # SignatureText(signature)

\* the ids F2, F1 have been signed as F1, F2
C28_Witness ==
    /\ pc = "signed"
    /\ op_call2_data.formula_ids = <<2, 1>>
    /\ SignatureText(signature) = "fids=[F1,F2]|unknown=acceleration"

\* C29: two candidates whose formula ids form the same set, whatever the order
\* and the repetitions in their lists, and whose unknown variable is the same,
\* have equal signatures and each is rejected as a duplicate once the other is
\* in the history.
C29_SameIdSetSameSignature ==
    pc = "signed"
        => \A f \in HelperFids, v \in HelperVariables :
              LET d == [op_call2_data EXCEPT !.formula_ids = f, !.variables = v,
                                             !.word_problem.id = 1]
              IN  ( /\ Range(f) = Range(op_call2_data.formula_ids)
                    /\ UnknownOf(op_call2_data) # "None"
                    /\ UnknownOf(d) = UnknownOf(op_call2_data) )
                    => /\ compute_problem_signature(d) = signature
                       /\ validate_problem(
                              d, formula_id_set, variable_ranges,
                              <<HistoryEntry(op_call2_data, signature, 0)>>).valid
                            = FALSE

\* C30: for code that loads and leaves no callable named solve, whatever else
\* it defines, execute returns valid=false with the error "'solve()' function
\* not found" and no result: nothing of the code has been called as solver.
C30_SolveNotFound ==
    (pc = "executed" /\ ~code_text.load_raises /\ "solve" \notin code_text.callables)
        => action3_result = ExecInvalid("'solve()' function not found", <<>>, None)

\* the code defines two callables, none of them solve
C30_Witness ==
    /\ pc = "executed"
    /\ code_text.callables = {"helper", "main"}
    /\ action3_result = ExecInvalid("'solve()' function not found", <<>>, None)

\* solve() has been called and has returned
SolveReturned ==
    /\ pc = "executed"
    /\ ~code_text.load_raises
    /\ code_text.defines_solve
    /\ ~code_text.solve_raises

\* the returned value is a finite number / a finite negative number
FiniteNumber(ret) == ret.t \in {"num", "huge"}
NegativeNumber(ret) ==
    \/ ret.t = "num" /\ ret.n < 0
    \/ ret.t = "huge" /\ ret.sign < 0

\* the names of the helper runs that contain, in any letter case, one of the
\* tokens mass, distance, time, speed, velocity, energy
NamesWithToken == {"mass", "time", "distance", "Time", "total_energy"}

\* C31: when solve returns a finite negative number and the name of the
\* unknown variable contains one of the tokens, execute returns valid=false
\* with error 'Negative value for <unknown_var>' and the returned value as
\* result; when the name contains no token it returns valid=true.
C31_SignSanity ==
    (SolveReturned /\ NegativeNumber(code_text.ret)
       /\ UnknownOf(op_call2_data) # "None")
        => IF UnknownOf(op_call2_data) \in NamesWithToken
           THEN action3_result
                  = ExecInvalid("Negative value for",
                                <<UnknownOf(op_call2_data)>>, code_text.ret)
           ELSE action3_result = [valid |-> TRUE, result |-> code_text.ret]

\* C31 for the returned values a float can hold
C31_SignSanityInFloatRange ==
    code_text.ret.t # "huge" => C31_SignSanity

\* the outcome the specification assigns to a run of execute
ExpectedOutcome(code, c) ==
    IF code.load_raises
    THEN ExecInvalid("Execution failed", <<"load">>, None)
    ELSE IF code.defines_solve /\ code.solve_raises
    THEN ExecInvalid("Execution failed", <<"solve">>, None)
    ELSE IF ~code.defines_solve
    THEN ExecInvalid("'solve()' function not found", <<>>, None)
    ELSE IF ~FiniteNumber(code.ret) /\ code.ret.t \notin {"fnan", "finf"}
    THEN ExecInvalid("Invalid return type", <<>>, None)
    ELSE IF code.ret.t \in {"fnan", "finf"}
    THEN ExecInvalid("Result is NaN or Inf", <<>>, None)
    ELSE IF NegativeNumber(code.ret) /\ UnknownOf(c) \in NamesWithToken
    THEN ExecInvalid("Negative value for", <<UnknownOf(c)>>, code.ret)
    ELSE [valid |-> TRUE, result |-> code.ret]

\* C32: every run of execute has exactly one outcome, the first that applies
\* of: the code fails to load or solve raises, no callable solve, a return
\* value that is absent or no number, NaN or infinite, negative for a
\* sign-checked unknown, and otherwise valid=true with the returned number;
\* valid=true comes only with a finite number.
C32_ExecuteOutcomeOrder ==
    pc = "executed"
        => /\ action3_result = ExpectedOutcome(code_text, op_call2_data)
           /\ ("valid" \in DOMAIN action3_result /\ action3_result.valid)
                => FiniteNumber(action3_result.result)

\* C32 for the returned values a float can hold
C32_ExecuteOutcomeOrderInFloatRange ==
    code_text.ret.t # "huge" => C32_ExecuteOutcomeOrder

(***************************************************************************)
(* The stages of a cycle (main:172-336)                                    *)
(***************************************************************************)
\* the candidate the cycle holds is the one validate_problem has accepted,
\* against the formulas, the ranges and the window as they are now
CandidateValidated ==
    /\ IsObject(op_call2_data)
    /\ validation_result.valid
    /\ validation_result = validate_problem(op_call2_data, formula_id_set,
                                            variable_ranges, previous_problems)
    /\ signature = compute_problem_signature(op_call2_data)

\* the step issues a code-generation call, runs execute_and_validate_in_repl
IssuesCall3 == calls'.call3 = calls.call3 + 1
RunsExecute == calls'.execute = calls.execute + 1

\* C33: the stages of a cycle come in a strict order.  A code-generation call
\* is issued only after validate_problem has accepted the candidate the cycle
\* holds; the code is executed in the step of the call that produced it, on
\* the variables of that candidate, which the step leaves in place; a record
\* is made only by a step whose execution is valid; and a cycle starts only
\* when no cycle is running: the one before it has recorded or was abandoned.
C33_StageOrder ==
    /\ [](pc \in {"call3", "call3a"} => CandidateValidated)
    /\ [](pc \in {"call2a", "call2b", "call3", "call3a"} => outcome = "running")
    /\ [](outcome = "running" =>
             pc \in {"call2a", "call2b", "call3", "call3a", "aborted"})
    /\ [][IssuesCall3 => (pc \in {"call3", "call3a"} /\ CandidateValidated)]_vars
    /\ [][RunsExecute =>
            /\ IssuesCall3
            /\ outcome' # "execution failed" =>
                  /\ op_call2_data' = op_call2_data
                  /\ validation_result' = validation_result
                  /\ action3_result' =
                        execute_and_validate_in_repl(code_text',
                                                     op_call2_data.variables)]_vars
    /\ [][Records =>
            /\ RunsExecute
            /\ action3_result'.valid
            /\ Last(per_row_successful').variables = op_call2_data.variables]_vars
    /\ [][CycleStarts => (pc = "cycle" /\ outcome # "running")]_vars

\* a cycle has recorded after a code retry, and the next cycle has not begun
C33_Witness ==
    /\ outcome = "recorded"
    /\ calls.validate = 1
    /\ calls.call3 = 2
    /\ calls.execute = 2
    /\ pc = "cycle"

\* the candidates of the model's answers that validate_problem can accept
AcceptableCandidates == {Pool[j] : j \in 1..NumCandidates} \cup {PermutedCandidate}

\* the record r is made of one candidate c, of what validate_problem and
\* compute_problem_signature say of c, and of one execution
ConsistentRecord(r) ==
    /\ \E c \in AcceptableCandidates :
          /\ r.formula_ids = c.formula_ids
          /\ r.variables = c.variables
          /\ r.word_problem = c.word_problem
          /\ r.signature = compute_problem_signature(c)
          /\ r.unknown_var = UnknownOf(c)
    /\ r.unknown_var = r.signature.unknown
    /\ r.validation_result = [valid |-> TRUE, unknown_var |-> r.unknown_var]
    /\ r.execution_result = execute_and_validate_in_repl(r.code, r.variables)
    /\ r.execution_result.valid
    /\ r.result = r.execution_result.result

\* C34: every record of the success list is made of the one candidate that
\* passed validation in its cycle: its formula_ids, variables and word_problem
\* are those of one candidate, its signature is the signature of that
\* candidate, its unknown_var is the unknown of that signature, and its code
\* and result are those of the execution that was valid.  The answer of a
\* validation retry is taken as a whole candidate; a code retry replaces the
\* code and the execution result and leaves the candidate, its validation
\* result and its signature as they are.
C34_RecordOfOneCandidate ==
    /\ [](\A r \in Range(per_row_successful) : ConsistentRecord(r))
    /\ [][(pc = "call2b" /\ pc' = "call3") =>
            (op_call2_data' \in AcceptableCandidates /\ CandidateValidated')]_vars
    /\ [][(pc = "call3a" /\ Records) =>
            /\ op_call2_data' = op_call2_data
            /\ validation_result' = validation_result
            /\ signature' = signature]_vars
    /\ [][Records =>
            per_row_successful' =
                Append(per_row_successful,
                       SuccessRecord(op_call2_data, validation_result, signature,
                                     code_text', action3_result', now',
                                     row_index))]_vars

\* a record made after a validation retry and a code retry
C34_Witness ==
    /\ outcome = "recorded"
    /\ calls.validate = 2
    /\ calls.execute = 2
    /\ Last(per_row_successful).code = code_text
    /\ Last(per_row_successful).variables = op_call2_data.variables

\* C35: one cycle issues at most 3 candidate-generation calls, runs
\* validate_problem at most twice, issues at most 2 code-generation calls and
\* runs execute_and_validate_in_repl at most twice.  The validation retry is
\* one call: whatever its answer, the cycle does not ask again, and when the
\* answer is not validated (the call raised or the answer did not parse) the
\* cycle is abandoned without a record.
C35_CallBudget ==
    /\ [](/\ calls.call2 <= 3
          /\ calls.validate <= 2
          /\ calls.call3 <= 2
          /\ calls.execute <= 2
          /\ calls.validate <= calls.call2
          /\ calls.execute <= calls.call3)
    /\ [][(pc = "call2b") =>
            /\ calls'.call2 = calls.call2 + 1
            /\ pc' \in {"call3", "aborted", EndPc(cycle_no)}]_vars
    /\ [][(pc = "call2b" /\ calls'.validate = calls.validate /\ pc' # "aborted") =>
            /\ pc' = EndPc(cycle_no)
            /\ outcome' \in {"call2b raised", "retry parse failed"}
            /\ per_row_successful' = per_row_successful
            /\ now' = now]_vars

\* a cycle has used its three candidate-generation calls and both validations
C35_Witness ==
    /\ calls.call2 = 3
    /\ calls.validate = 2
    /\ pc = "call3"

\* the ways a cycle is abandoned
AbandonedOutcomes ==
    RaisedOutcomes \cup {"parse failed", "retry parse failed", "validation failed",
                         "duplicate", "execution failed"}

\* C36: a cycle that is abandoned, for whatever reason, leaves the history
\* window, the success list, the merged store in memory and the store file as
\* they were: every step of a cycle that does not record leaves them
\* unchanged, together with the data of the seed pair and the position of the
\* loop, and a step that abandons the cycle ends it with one of the reasons
\* of the script.
C36_AbandonHasNoEffect ==
    /\ [][(pc \in CyclePcs /\ outcome' # "recorded") =>
            /\ previous_problems' = previous_problems
            /\ per_row_successful' = per_row_successful
            /\ existing_records' = existing_records
            /\ existing_signatures' = existing_signatures
            /\ file' = file
            /\ tmp_file' = tmp_file
            /\ now' = now
            /\ <<row_index, formula_id_set, variable_ranges, current_iteration>>' =
                  <<row_index, formula_id_set, variable_ranges, current_iteration>>]_vars
    /\ [][(pc \in CyclePcs /\ pc' \in {"cycle", "loop"} /\ outcome' # "recorded") =>
            (pc' = EndPc(cycle_no') /\ outcome' \in AbandonedOutcomes)]_vars
    /\ [](outcome \in AbandonedOutcomes => pc \in {"cycle", "loop"})

\* a cycle was abandoned after its second failed execution, with earlier
\* successes of the seed pair in the window and in the success list
C36_Witness ==
    /\ outcome = "execution failed"
    /\ per_row_successful # <<>>
    /\ previous_problems # <<>>
    /\ counted.execution_failures = 1

\* the positions of the records of a store that carry the signature sig
WithSignature(records, sig) ==
    {i \in 1..Len(records) : records[i].signature = sig}

\* C37: validation looks for duplicates in the history window only, never in
\* the signature set of the store.  A rejection is the result of
\* validate_problem on an answer of the model, the formulas and ranges of the
\* seed pair and the window; a candidate that is accepted is accepted on
\* these alone, whether or not the store holds its signature.  A record whose
\* signature the store holds counts in the success list like any other (no
\* iteration starts once the list holds target_problems records), and the
\* merge of PERSIST adds no record for it: the store keeps the records of
\* that signature it had.
C37_ValidateUsesWindowOnly ==
    /\ [](pc = "call2b" =>
             \E c \in Proposals :
                 validation_result = validate_problem(c, formula_id_set,
                                                      variable_ranges,
                                                      previous_problems))
    /\ [](pc \in {"call3", "call3a"} =>
             validation_result = validate_problem(op_call2_data, formula_id_set,
                                                  variable_ranges,
                                                  previous_problems))
    /\ [][IterationStarts => Len(per_row_successful) < target_problems]_vars
    /\ [][Merges =>
            \A r \in Range(per_row_successful) :
                r.signature \in existing_signatures =>
                    WithSignature(existing_records', r.signature) =
                        WithSignature(existing_records, r.signature)]_vars

\* a seed pair reached the target with a record whose signature the store
\* file already held, and PERSIST has written the store with the earlier
\* record of that signature only
C37_Witness ==
    /\ pc = "rows"
    /\ row_index = 1
    /\ initial_file = ListFile(<<PriorRecord(1)>>)
    /\ Len(per_row_successful) = target_problems
    /\ \E r \in Range(per_row_successful) : r.signature = PriorRecord(1).signature
    /\ file.kind = "list"
    /\ Len(file.data) = target_problems
    /\ WithSignature(file.data, PriorRecord(1).signature) = {1}
    /\ file.data[1] = PriorRecord(1)

\* the positions in which a cycle can validate a candidate
ValidatingPcs == {"cycle", "call2a", "call2b"}

\* C38: the success list of a seed pair never holds two records with one
\* signature.  Whenever a cycle can validate a candidate, the window holds
\* the signature of every record of the success list, so validate_problem
\* rejects a repeat of any of them; the signature of a record that is added
\* was not in the window, and so not in the list, before.
C38_SuccessListDistinct ==
    /\ [](Distinct(per_row_successful))
    /\ [](pc \in ValidatingPcs =>
             \A r \in Range(per_row_successful) :
                 SignatureInHistory(r.signature, previous_problems))
    /\ [][Records =>
            /\ ~SignatureInHistory(Last(per_row_successful').signature,
                                   previous_problems)
            /\ Last(per_row_successful').signature
                  \notin Signatures(per_row_successful)]_vars

\* the success list holds as many records as the window has entries, and the
\* cycle that follows proposed a repeat, which validation rejected
C38_Witness ==
    /\ pc = "call2b"
    /\ Len(per_row_successful) = WindowSize
    /\ validation_result.error.msg = "Duplicate problem signature"

\* C39: the duplicate check the script makes after validation never rejects.
\* A candidate that reaches it has passed validate_problem against the same
\* window, so its signature is not in the window; no cycle is abandoned as a
\* duplicate and duplicates_skipped is 0 in every state.
C39_DuplicateCheckNeverRejects ==
    /\ [](duplicates_skipped = 0)
    /\ [](outcome # "duplicate")
    /\ [](pc \in {"call3", "call3a"} =>
             ~SignatureInHistory(compute_problem_signature(op_call2_data),
                                 previous_problems))
    /\ [][(validation_result'.valid /\ calls'.validate # calls.validate) =>
            (pc' = "call3" /\ duplicates_skipped' = duplicates_skipped)]_vars

\* a candidate has passed validation and the check after it with entries in
\* the window, in a run in which validation has rejected a duplicate before
C39_Witness ==
    /\ pc = "call3"
    /\ calls.validate = 2
    /\ feedback.msg = "Duplicate problem signature"
    /\ previous_problems # <<>>
    /\ duplicates_skipped = 0

=============================================================================
